---- MODULE Spec2Model ----
(***************************************************************************)
(* A model of LibFS.c: a single-volume inode file system kept on a         *)
(* sector-addressed disk.  The volume is modelled at cell granularity: a   *)
(* data sector is an array of SECTOR_SIZE cells, a file byte is one cell,  *)
(* a directory entry (dirent_t) is DIRENT_SIZE consecutive cells (fname,   *)
(* inode), so a sector that is reached both as file data and as directory  *)
(* entries shows the same cells to both.  File names are small positive    *)
(* integers (0 is the empty string), so every cell is an integer.          *)
(*                                                                         *)
(* The geometry (SECTOR_SIZE, TOTAL_SECTORS, MAX_FILES,                    *)
(* MAX_SECTORS_PER_FILE) comes from LibDisk.h / LibFS.h and is scaled      *)
(* down; MAX_FILES and TOTAL_SECTORS stay multiples of 8 as in the         *)
(* headers (1000 and 10000), so that both bitmaps hold exactly one bit per *)
(* inode / sector.                                                         *)
(***************************************************************************)
EXTENDS Integers, Sequences, FiniteSets, TLC

VARIABLES inode_bitmap,   \* sectors INODE_BITMAP_START_SECTOR.. : bit -> BOOLEAN
          sector_bitmap,  \* sectors SECTOR_BITMAP_START_SECTOR.. : bit -> BOOLEAN
          inode_table,    \* inode number -> inode_t
          datablocks,     \* data sector -> array of cells
          open_files,     \* fd -> open_file_t
          osErrno,        \* the global error number
          status,         \* "running", or how the process ended
          calls,          \* the calls made so far that changed the volume or open_files
          children,       \* history: directory inode -> the <<name, inode>> entries the
                          \* successful creates and unlinks have left in it
          made,           \* history: the <<names, inode, type>> of the paths that
                          \* successful creates made and no successful unlink removed
          superblock,     \* the int at byte 0 of sector SUPERBLOCK_START_SECTOR
          backstore       \* the image file FS_Boot was given

vars == <<inode_bitmap, sector_bitmap, inode_table, datablocks, open_files,
          osErrno, status, calls, children, made, superblock, backstore>>

----------------------------------------------------------------------------
(* Geometry *)

SECTOR_SIZE == 4
TOTAL_SECTORS == 16
MAX_FILES == 8
MAX_SECTORS_PER_FILE == 2
MAX_OPEN_FILES == 2
MAX_NAME == 16

\* sizeof(dirent_t) and sizeof(inode_t), in cells
DIRENT_SIZE == 2
INODE_SIZE == 2 + MAX_SECTORS_PER_FILE

SUPERBLOCK_START_SECTOR == 0
OS_MAGIC == -559038737              \* 0xdeadbeef, as the int stored at byte 0
INODE_BITMAP_START_SECTOR == 1
INODE_BITMAP_SIZE == (MAX_FILES + 7) \div 8
INODE_BITMAP_SECTORS == (INODE_BITMAP_SIZE + SECTOR_SIZE - 1) \div SECTOR_SIZE
SECTOR_BITMAP_START_SECTOR == INODE_BITMAP_START_SECTOR + INODE_BITMAP_SECTORS
SECTOR_BITMAP_SIZE == (TOTAL_SECTORS + 7) \div 8
SECTOR_BITMAP_SECTORS == (SECTOR_BITMAP_SIZE + SECTOR_SIZE - 1) \div SECTOR_SIZE
INODE_TABLE_START_SECTOR == SECTOR_BITMAP_START_SECTOR + SECTOR_BITMAP_SECTORS
INODES_PER_SECTOR == SECTOR_SIZE \div INODE_SIZE
INODE_TABLE_SECTORS == (MAX_FILES + INODES_PER_SECTOR - 1) \div INODES_PER_SECTOR
DATABLOCK_START_SECTOR == INODE_TABLE_START_SECTOR + INODE_TABLE_SECTORS
DIRENTS_PER_SECTOR == SECTOR_SIZE \div DIRENT_SIZE

\* the error numbers of LibFS.h
E_GENERAL == "E_GENERAL"
E_CREATE == "E_CREATE"
E_NO_SUCH_FILE == "E_NO_SUCH_FILE"
E_TOO_MANY_OPEN_FILES == "E_TOO_MANY_OPEN_FILES"
E_BAD_FD == "E_BAD_FD"
E_NO_SPACE == "E_NO_SPACE"
E_FILE_TOO_BIG == "E_FILE_TOO_BIG"
E_SEEK_OUT_OF_BOUNDS == "E_SEEK_OUT_OF_BOUNDS"
E_FILE_IN_USE == "E_FILE_IN_USE"
E_NO_SUCH_DIR == "E_NO_SUCH_DIR"
E_ROOT_DIR == "E_ROOT_DIR"
E_BUFFER_TOO_SMALL == "E_BUFFER_TOO_SMALL"

----------------------------------------------------------------------------
(* Helpers *)

Min(S) == CHOOSE x \in S : \A y \in S : x <= y

\* C integer division and remainder (truncation toward zero)
CDiv(a, b) == IF a >= 0 THEN a \div b ELSE -((-a) \div b)
CMod(a, b) == a - b * CDiv(a, b)

InodeNumbers == 0 .. (MAX_FILES - 1)
DataSectors == DATABLOCK_START_SECTOR .. (TOTAL_SECTORS - 1)
Cells == 0 .. (SECTOR_SIZE - 1)
Groups == 0 .. (MAX_SECTORS_PER_FILE - 1)
Fds == 0 .. (MAX_OPEN_FILES - 1)

ZeroSector == [c \in Cells |-> 0]
ZeroInode == [size |-> 0, type |-> 0, data |-> [g \in Groups |-> 0]]
ZeroOpenFile == [inode |-> 0, size |-> 0, pos |-> 0]

\* Disk_Read / Disk_Write of LibDisk.c fail exactly on a sector outside the disk
ValidSector(s) == 0 <= s /\ s < TOTAL_SECTORS

----------------------------------------------------------------------------
(* The bitmaps.  A bitmap of num sectors is the function bit -> BOOLEAN    *)
(* over all num * SECTOR_SIZE * 8 bits; bit 8*j+k is bit BYTE1[k] of byte j.*)

BitmapBits(num) == 0 .. (num * SECTOR_SIZE * 8 - 1)

\* one byte of bitmap_init: the byte's 8 bits given the bits still to set
RECURSIVE InitBytes(_, _, _)
InitBytes(j, nbytes, nbits) ==
    IF j = nbytes THEN <<>>
    ELSE IF nbits > 8
         THEN <<8>> \o InitBytes(j + 1, nbytes, nbits - 8)
         ELSE <<nbits>> \o InitBytes(j + 1, nbytes, 0)

\* bitmap_init that sets no bit
bitmap_init_NoBit(num, nbits) == [b \in BitmapBits(num) |-> FALSE]

bitmap_init(num, nbits) ==
    LET ones == InitBytes(0, num * SECTOR_SIZE, nbits)
    IN  [b \in BitmapBits(num) |-> (b % 8) < ones[(b \div 8) + 1]]

ByteFull(bm, j) == \A k \in 0 .. 7 : bm[8 * j + k]

\* the bitmap after the call and the index returned (-1: none)
bitmap_first_unused(bm, num, nbits) ==
    LET cand == { j \in 0 .. (num * SECTOR_SIZE - 1) : j < nbits /\ ~ByteFull(bm, j) }
    IN  IF cand = {} THEN [bm |-> bm, idx |-> -1]
        ELSE LET j == Min(cand)
                 k == Min({ x \in 0 .. 7 : ~bm[8 * j + x] })
                 i == j \div SECTOR_SIZE
             IN  [bm |-> [bm EXCEPT ![8 * j + k] = TRUE],
                  idx |-> i * SECTOR_SIZE * 8 + (j % SECTOR_SIZE) * 8 + k]

\* the reset that clears the whole byte holding the bit
bitmap_reset_WholeByte(bm, num, ibit) ==
    LET ibyte == ibit \div 8
        i == ibyte \div SECTOR_SIZE
    IN  IF ~(0 <= i /\ i < num) \/ ibit < 0 THEN [bm |-> bm, ok |-> FALSE]
        ELSE [bm |-> [b \in DOMAIN bm |-> IF b \div 8 = ibyte THEN FALSE ELSE bm[b]],
              ok |-> TRUE]

\* ok is FALSE when assert(0 <= i && i < num) fails
bitmap_reset(bm, num, ibit) ==
    LET ibyte == CDiv(ibit, 8)
        i == CDiv(ibyte, SECTOR_SIZE)
    IN  IF ~(0 <= i /\ i < num) \/ ibit < 0 THEN [bm |-> bm, ok |-> FALSE]
        ELSE [bm |-> [bm EXCEPT ![ibit] = FALSE], ok |-> TRUE]

----------------------------------------------------------------------------
(* The volume and the process as one value, so that every function of      *)
(* LibFS.c is an operator from a world to a world and a return value.      *)
(*   ibm, sbm : the two bitmaps       ino : the inode table                *)
(*   blk : the data sectors           of  : open_files                     *)
(*   err : osErrno                    st  : status                         *)
(* st = "aborted": an assert failed and abort() ended the process.         *)
(* st = "undefined": the call ran into undefined behaviour whose outcomes  *)
(* are not enumerated; nothing is known about the process from there on.   *)

World == [ibm |-> inode_bitmap, sbm |-> sector_bitmap, ino |-> inode_table,
          blk |-> datablocks, of |-> open_files, err |-> osErrno, st |-> status]

Abort(w) == [w EXCEPT !.st = "aborted"]
Undefined(w) == [w EXCEPT !.st = "undefined"]

\* what Disk_Read returns for a valid sector; only data sectors are ever
\* read as directory entries or file bytes, a metadata sector reads as -1s
MetaSector == [c \in Cells |-> -1]
ReadSector(w, s) == IF s \in DataSectors THEN w.blk[s] ELSE MetaSector

\* Disk_Write of a data sector; a write of data over a metadata sector
\* leaves the modelled part of the volume
WriteSector(w, s, buf) ==
    IF s \in DataSectors THEN [w EXCEPT !.blk[s] = buf] ELSE Undefined(w)

\* ((dirent_t*)buf)[i].fname and .inode
DirentName(buf, i) == buf[i * DIRENT_SIZE]
DirentInode(buf, i) == buf[i * DIRENT_SIZE + 1]
PutDirent(buf, i, fname, inode) ==
    [buf EXCEPT ![i * DIRENT_SIZE] = fname, ![i * DIRENT_SIZE + 1] = inode]

----------------------------------------------------------------------------
(* File names and paths.  A name is a positive integer; LongName stands    *)
(* for a name of MAX_NAME characters.  A path is whether it starts with    *)
(* '/', and the tokens strsep() cuts the rest into (0: an empty token).    *)

NumNames == 5
Names == 1 .. NumNames
LongName == NumNames + 1
StarName == NumNames + 2            \* "*", a character outside the legal ones
NameLen(name) == IF name = LongName THEN MAX_NAME ELSE 1

\* the character the name is made of: 'a', 'b', ... for Names and for the
\* long name, '*' for StarName
CharOf(name) == IF name = StarName THEN 42 ELSE IF name = LongName THEN 97 ELSE 96 + name

\* the character test of the source, a conjunction of comparisons
IllegalChar(name) ==
    LET ch == CharOf(name)
    IN  /\ (ch < 65 /\ ch > 90) /\ (ch < 97 /\ ch > 122) /\ (ch < 48 /\ ch > 57)
        /\ ch # 45 /\ ch # 46 /\ ch # 95

illegal_filename(name) ==
    IF NameLen(name) > MAX_NAME - 1 THEN TRUE
    ELSE IllegalChar(name)

\* the scan loop shared in shape by find_child_inode and remove_inode:
\* entries i of sector data[idx] with i <= nentries are examined
ScanLimit(nentries) ==
    { i \in 0 .. (DIRENTS_PER_SECTOR - 1) : ~(i > nentries) }

RECURSIVE ScanName(_, _, _, _, _)
ScanName(w, parent, fname, nentries, idx) ==
    IF ~(nentries > 0) THEN -1
    ELSE IF idx \notin Groups THEN -2
    ELSE IF ~ValidSector(parent.data[idx]) THEN -2
    ELSE LET buf == ReadSector(w, parent.data[idx])
             hits == { i \in ScanLimit(nentries) : DirentName(buf, i) = fname }
         IN  IF hits # {} THEN DirentInode(buf, Min(hits))
             ELSE ScanName(w, parent, fname, nentries - DIRENTS_PER_SECTOR, idx + 1)

\* the child inode, -1 (not found) or -2 (parent not a directory, read error).
\* The cached inode-table sector always equals the sector on disk: nothing
\* writes the disk while a path is followed.
find_child_inode(w, parent_inode, fname) ==
    LET parent == w.ino[parent_inode]
    IN  IF parent.type # 1 THEN -2
        ELSE ScanName(w, parent, fname, parent.size, 0)

RECURSIVE Walk(_, _, _, _, _)
Walk(w, toks, parent_inode, child_inode, fname) ==
    IF toks = <<>>
    THEN [ok |-> TRUE, parent |-> parent_inode, child |-> child_inode, fname |-> fname]
    ELSE LET token == Head(toks)
         IN  IF token = 0
             THEN Walk(w, Tail(toks), parent_inode, child_inode, fname)
             ELSE IF illegal_filename(token) \/ child_inode < 0
                  THEN [ok |-> FALSE, parent |-> -1, child |-> -1, fname |-> fname]
                  ELSE Walk(w, Tail(toks), child_inode,
                            find_child_inode(w, child_inode, token), token)

\* ret: the parent inode or -1; set: whether *last_inode was assigned
follow_path(w, path) ==
    IF ~path.abs
    THEN [ret |-> -1, set |-> FALSE, last_inode |-> -1, last_fname |-> 0]
    ELSE LET r == Walk(w, path.toks, -1, 0, 0)
         IN  IF ~r.ok \/ r.child < -1
             THEN [ret |-> -1, set |-> FALSE, last_inode |-> -1, last_fname |-> r.fname]
             ELSE [ret |-> IF r.parent = -1 /\ r.child = 0 THEN 0 ELSE r.parent,
                   set |-> TRUE, last_inode |-> r.child, last_fname |-> r.fname]

----------------------------------------------------------------------------
(* Directory entries: add_inode and remove_inode.  Each returns the world  *)
(* after the call and the value returned.                                  *)

Ret(w, ret) == [w |-> w, ret |-> ret]
SetErr(w, e) == [w EXCEPT !.err = e]

add_inode(w, type, parent_inode, file) ==
    LET a == bitmap_first_unused(w.ibm, INODE_BITMAP_SECTORS, INODE_BITMAP_SIZE)
        child_inode == a.idx
    IN
    IF child_inode < 0 THEN Ret(w, -1)
    ELSE
    LET w1 == [w EXCEPT !.ibm = a.bm,
                        !.ino[child_inode] = [ZeroInode EXCEPT !.type = type]]
        parent == w1.ino[parent_inode]
    IN
    IF parent.type # 1 THEN Ret(w1, -2)
    ELSE
    LET group == CDiv(parent.size, DIRENTS_PER_SECTOR)
        fresh == (group * DIRENTS_PER_SECTOR = parent.size)
        s == bitmap_first_unused(w1.sbm, SECTOR_BITMAP_SECTORS, SECTOR_BITMAP_SIZE)
    IN
    IF fresh /\ s.idx < 0 THEN Ret(w1, -1)
    ELSE IF group \notin Groups
    THEN \* parent->data[group] lies outside the inode's data array
         Ret(Undefined(IF fresh THEN [w1 EXCEPT !.sbm = s.bm] ELSE w1), -1)
    ELSE
    LET sector == IF fresh THEN s.idx ELSE parent.data[group]
        w2 == IF fresh THEN [w1 EXCEPT !.sbm = s.bm] ELSE w1
    IN
    IF ~ValidSector(sector) THEN Ret(w2, -1)
    ELSE
    LET dirent_buffer == IF fresh THEN ZeroSector ELSE ReadSector(w2, sector)
        offset == parent.size - group * DIRENTS_PER_SECTOR
        w3 == WriteSector(w2, sector, PutDirent(dirent_buffer, offset, file, child_inode))
    IN  IF offset < 0 THEN Ret(Undefined(w2), -1)   \* a store before dirent_buffer
        ELSE
        Ret([w3 EXCEPT !.ino[parent_inode] =
                 [parent EXCEPT !.data[group] = sector, !.size = parent.size + 1]], 0)

create_file_or_directory(w, type, path) ==
    LET f == follow_path(w, path)
    IN  IF f.ret >= 0
        THEN IF f.last_inode >= 0
             THEN Ret(SetErr(w, E_CREATE), -1)
             ELSE LET r == add_inode(w, type, f.ret, f.last_fname)
                  IN  IF r.ret >= 0 THEN Ret(r.w, 0)
                      ELSE Ret(SetErr(r.w, E_CREATE), -1)
        ELSE Ret(SetErr(w, E_CREATE), -1)

\* the sector bitmap after reclaiming data[g] for g = from .. to-1, or
\* ok = FALSE when bitmap_reset's assertion fails on the way
RECURSIVE ReclaimBlocks(_, _, _, _)
ReclaimBlocks(bm, child, g, n) ==
    IF ~(g < n) THEN [bm |-> bm, ok |-> TRUE]
    ELSE IF g \notin Groups THEN [bm |-> bm, ok |-> FALSE]
    ELSE LET r == bitmap_reset(bm, SECTOR_BITMAP_SECTORS, child.data[g])
         IN  IF ~r.ok THEN r ELSE ReclaimBlocks(r.bm, child, g + 1, n)

\* the compaction scan of remove_inode: the place (sector, entry) of the
\* first examined entry naming child_inode, found = FALSE when there is none
RECURSIVE ScanInode(_, _, _, _, _)
ScanInode(w, parent, child_inode, nentries, idx) ==
    IF ~(nentries > 0) \/ idx \notin Groups \/ ~ValidSector(parent.data[idx])
    THEN [found |-> FALSE, readerr |-> (nentries > 0), sector |-> 0, i |-> 0]
    ELSE LET buf == ReadSector(w, parent.data[idx])
             hits == { i \in ScanLimit(nentries) : DirentInode(buf, i) = child_inode }
         IN  IF hits # {}
             THEN [found |-> TRUE, readerr |-> FALSE, sector |-> parent.data[idx], i |-> Min(hits)]
             ELSE ScanInode(w, parent, child_inode, nentries - DIRENTS_PER_SECTOR, idx + 1)

\* RemoveEntry without the compaction: the entry of the child stays
RemoveEntry_NoCompaction(w, parent_inode, child_inode, parent, group, last_name, last_inode) ==
    LET offset == parent.size - group * DIRENTS_PER_SECTOR
        r == bitmap_reset(w.sbm, SECTOR_BITMAP_SECTORS, parent.data[group])
    IN
    IF offset = 0 /\ ~r.ok THEN Ret(Abort(w), -1)
    ELSE Ret([w EXCEPT !.sbm = IF offset = 0 THEN r.bm ELSE @,
                       !.ino[parent_inode] = parent], 0)

\* the part of remove_inode after the child's inode is reclaimed; last_inode
\* is last_one.inode, the inode of the entry popped from the end
RemoveEntry(w, parent_inode, child_inode, parent, group, last_name, last_inode) ==
    LET offset == parent.size - group * DIRENTS_PER_SECTOR
        r == bitmap_reset(w.sbm, SECTOR_BITMAP_SECTORS, parent.data[group])
    IN
    IF offset = 0 /\ ~r.ok THEN Ret(Abort(w), -1)
    ELSE
    LET w1 == [w EXCEPT !.sbm = IF offset = 0 THEN r.bm ELSE @,
                        !.ino[parent_inode] = parent]
    IN
    IF last_inode = child_inode THEN Ret(w1, 0)
    ELSE
    LET hit == ScanInode(w1, parent, child_inode, parent.size, 0)
    IN  IF hit.found
        THEN Ret(WriteSector(w1, hit.sector,
                     PutDirent(ReadSector(w1, hit.sector), hit.i, last_name, last_inode)), 0)
        ELSE IF hit.readerr THEN Ret(w1, -1)
        ELSE Ret(Abort(w1), -1)   \* assert(0)

\* the set of outcomes: one, except where last_one is copied from before
\* the start of dirent_buffer (offset < 0), whose content is arbitrary
remove_inode(w, type, parent_inode, child_inode) ==
    LET child == w.ino[child_inode]
    IN
    IF child.type # type THEN {Ret(w, -3)}
    ELSE IF type = 1 /\ child.size > 0 THEN {Ret(w, -2)}
    ELSE
    LET rb == IF type = 0
              THEN ReclaimBlocks(w.sbm, child, 0, CDiv(child.size, SECTOR_SIZE))
              ELSE [bm |-> w.sbm, ok |-> TRUE]
        ri == bitmap_reset(w.ibm, INODE_BITMAP_SECTORS, child_inode)
    IN
    IF ~rb.ok \/ ~ri.ok THEN {Ret(Abort(w), -1)}
    ELSE
    LET w1 == [w EXCEPT !.sbm = rb.bm, !.ibm = ri.bm]
        parent0 == w1.ino[parent_inode]
    IN
    IF parent0.type # 1 THEN {Ret(Abort(w1), -1)}   \* assert(parent->type == 1)
    ELSE
    LET parent == [parent0 EXCEPT !.size = parent0.size - 1]
        group == CDiv(parent.size, DIRENTS_PER_SECTOR)
        offset == parent.size - group * DIRENTS_PER_SECTOR
    IN
    IF group \notin Groups THEN {Ret(Undefined(w1), -1)}
    ELSE IF ~ValidSector(parent.data[group]) THEN {Ret(w1, -1)}
    ELSE IF offset < 0
    THEN { RemoveEntry(w1, parent_inode, child_inode, parent, group, 0, garbage) :
              garbage \in {child_inode, -1} }
    ELSE LET buf == ReadSector(w1, parent.data[group])
         IN  { RemoveEntry(w1, parent_inode, child_inode, parent, group,
                           DirentName(buf, offset), DirentInode(buf, offset)) }

----------------------------------------------------------------------------
(* The API calls on paths.  Each is the set of outcomes [w, ret] of the    *)
(* call in world w.                                                        *)

RootPath == [abs |-> TRUE, toks |-> <<0>>]    \* "/"

\* is_file_open looking at the first slot only
is_file_open_FirstSlot(w, inode) == w.of[0].inode = inode
is_file_open(w, inode) == \E i \in Fds : w.of[i].inode = inode

File_Create(w, file) == { create_file_or_directory(w, 0, file) }

Dir_Create(w, path) == { create_file_or_directory(w, 1, path) }

File_Unlink(w, file) ==
    LET f == follow_path(w, file)
    IN  IF f.ret >= 0
        THEN IF f.last_inode >= 0
             THEN IF is_file_open(w, f.last_inode)
                  THEN { Ret(SetErr(w, E_FILE_IN_USE), -1) }
                  ELSE { IF r.ret >= 0 THEN Ret(r.w, 0)
                         ELSE Ret(IF r.w.st = "running" THEN SetErr(r.w, E_GENERAL) ELSE r.w, -1) :
                           r \in remove_inode(w, 0, f.ret, f.last_inode) }
             ELSE { Ret(SetErr(w, E_NO_SUCH_FILE), -1) }
        ELSE { Ret(SetErr(w, E_GENERAL), -1) }

Dir_Unlink(w, path) ==
    IF path = RootPath THEN { Ret(SetErr(w, E_ROOT_DIR), -1) }
    ELSE LET f == follow_path(w, path)
         IN  IF f.ret < 0 THEN { Ret(SetErr(w, E_NO_SUCH_DIR), -1) }
             ELSE IF f.last_inode < 0 THEN { Ret(SetErr(w, E_NO_SUCH_DIR), -1) }
             ELSE remove_inode(w, 1, f.ret, f.last_inode)

----------------------------------------------------------------------------
(* The open-file table and the calls on descriptors.                       *)

\* new_file_fd taking the highest free slot
new_file_fd_Highest(w) ==
    LET free == { i \in Fds : w.of[i].inode <= 0 }
    IN  IF free = {} THEN -1 ELSE CHOOSE i \in free : \A x \in free : x <= i

new_file_fd(w) ==
    LET free == { i \in Fds : w.of[i].inode <= 0 }
    IN  IF free = {} THEN -1 ELSE Min(free)

\* the values child_inode may hold in File_Open when follow_path returned
\* without assigning it: any int; those below index the inode table or are
\* negative
Uninitialized == {-1} \cup InodeNumbers

\* File_Open from the test of child_inode on
OpenInode(w, fd, child_inode) ==
    IF child_inode >= 0
    THEN LET child == w.ino[child_inode]
         IN  IF child.type # 0 THEN Ret(SetErr(w, E_GENERAL), -1)
             ELSE Ret([w EXCEPT !.of[fd] = [inode |-> child_inode,
                                            size |-> child.size, pos |-> 0]], fd)
    ELSE Ret(SetErr(w, E_NO_SUCH_FILE), -1)

File_Open(w, file) ==
    LET fd == new_file_fd(w)
    IN  IF fd < 0 THEN { Ret(SetErr(w, E_TOO_MANY_OPEN_FILES), -1) }
        ELSE LET f == follow_path(w, file)
             IN  IF f.set THEN { OpenInode(w, fd, f.last_inode) }
                 ELSE { OpenInode(w, fd, g) : g \in Uninitialized }

\* the descriptor test shared by File_Read, File_Write and File_Close:
\* "bad", "ok", or "outside" for fd = MAX_OPEN_FILES, which passes the range
\* test and reads open_files[MAX_OPEN_FILES], past the end of the array
FdCheck(w, fd) ==
    IF 0 > fd \/ fd > MAX_OPEN_FILES THEN "bad"
    ELSE IF fd \notin Fds THEN "outside"
    ELSE IF w.of[fd].inode <= 0 THEN "bad"
    ELSE "ok"

\* the outcomes of a call on fd = MAX_OPEN_FILES: the int read there is
\* <= 0 (E_BAD_FD), or the call goes on with that memory as its slot
OutsideFd(w) == { Ret(SetErr(w, E_BAD_FD), -1), Ret(Undefined(w), -1) }

\* the caller's buffers: n bytes, none of them 0
NumBytes == 3
Buffer(seed, n) == [i \in 0 .. (n - 1) |-> ((seed + i) % NumBytes) + 1]

RetBuf(w, ret, buf) == [w |-> w, ret |-> ret, buf |-> buf]

\* File_Read without the clamp of end_addr to the end of the block
File_Read_AcrossBlocks(w, fd, size) ==
    LET chk == FdCheck(w, fd)
    IN
    IF chk = "bad" THEN { RetBuf(SetErr(w, E_BAD_FD), -1, <<>>) }
    ELSE IF chk = "outside" THEN { RetBuf(r.w, r.ret, <<>>) : r \in OutsideFd(w) }
    ELSE IF size < 0 THEN { RetBuf(SetErr(w, E_GENERAL), -1, <<>>) }
    ELSE IF w.of[fd].pos = w.of[fd].size \/ size = 0 THEN { RetBuf(w, 0, <<>>) }
    ELSE
    LET inode == w.ino[w.of[fd].inode]
        pos == w.of[fd].pos
        n == IF inode.size < pos + size THEN inode.size - pos ELSE size
    IN
    IF inode.size # w.of[fd].size \/ inode.type # 0 THEN { RetBuf(Abort(w), -1, <<>>) }
    ELSE IF n < 0 \/ \E k \in 1 .. n : CDiv(pos + k - 1, SECTOR_SIZE) \notin Groups
    THEN { RetBuf(Undefined(w), -1, <<>>) }
    ELSE { RetBuf([w EXCEPT !.of[fd].pos = pos + n], n,
                  [k \in 1 .. n |->
                      ReadSector(w, inode.data[(pos + k - 1) \div SECTOR_SIZE])[(pos + k - 1) % SECTOR_SIZE]]) }

\* outcomes carry buf, the bytes copied to the caller's buffer
File_Read(w, fd, size) ==
    LET chk == FdCheck(w, fd)
    IN
    IF chk = "bad" THEN { RetBuf(SetErr(w, E_BAD_FD), -1, <<>>) }
    ELSE IF chk = "outside" THEN { RetBuf(r.w, r.ret, <<>>) : r \in OutsideFd(w) }
    ELSE IF size < 0 THEN { RetBuf(SetErr(w, E_GENERAL), -1, <<>>) }
    ELSE IF w.of[fd].pos = w.of[fd].size \/ size = 0 THEN { RetBuf(w, 0, <<>>) }
    ELSE
    LET inode == w.ino[w.of[fd].inode]
        pos == w.of[fd].pos
    IN
    IF inode.size # w.of[fd].size \/ inode.type # 0 THEN { RetBuf(Abort(w), -1, <<>>) }
    ELSE
    LET gidx == CDiv(pos, SECTOR_SIZE)
        start_addr == gidx * SECTOR_SIZE
        end0 == start_addr + SECTOR_SIZE
        end_addr == IF end0 > inode.size THEN inode.size ELSE end0
        n == IF end_addr < pos + size THEN end_addr - pos ELSE size
        offset == pos - start_addr
    IN
    IF gidx \notin Groups
    THEN \* inode->data[gidx] is read past the array: any sector number
         { RetBuf(SetErr(w, E_GENERAL), -1, <<>>), RetBuf(Undefined(w), -1, <<>>) }
    ELSE IF ~ValidSector(inode.data[gidx]) THEN { RetBuf(SetErr(w, E_GENERAL), -1, <<>>) }
    ELSE IF n < 0 THEN { RetBuf(Undefined(w), -1, <<>>) }   \* memcpy of a negative size
    ELSE LET data == ReadSector(w, inode.data[gidx])
         IN  { RetBuf([w EXCEPT !.of[fd].pos = pos + n], n,
                      [k \in 1 .. n |-> data[offset + k - 1]]) }

\* the chunk clamped to the start of the block instead of its end
WriteChunk_ToBlockStart(pos, remain) ==
    LET start_addr == CDiv(pos, SECTOR_SIZE) * SECTOR_SIZE
    IN  IF start_addr < pos + remain THEN start_addr - pos ELSE remain

\* the bytes one iteration of the chunk loop of File_Write copies: what is
\* left of the request, up to the end of the block pos lies in
WriteChunk(pos, remain) ==
    LET end_addr == CDiv(pos, SECTOR_SIZE) * SECTOR_SIZE + SECTOR_SIZE
    IN  IF end_addr < pos + remain THEN end_addr - pos ELSE remain

\* the entries one iteration of the block loop of Dir_Read copies
DirChunk(entries) == IF DIRENTS_PER_SECTOR > entries THEN entries ELSE DIRENTS_PER_SECTOR

\* the iterations the chunk loop of File_Write runs from pos with remain
\* bytes to write before it returns (with the count or an error), -1 when
\* an iteration copies no byte or the loop is still running after fuel
\* iterations; a disk that does not fail
RECURSIVE WriteIterations(_, _, _, _)
WriteIterations(pos, remain, done, fuel) ==
    IF ~(remain > 0) THEN done
    ELSE IF CDiv(pos, SECTOR_SIZE) = MAX_SECTORS_PER_FILE THEN done   \* E_FILE_TOO_BIG
    ELSE IF fuel = 0 \/ WriteChunk(pos, remain) < 1 THEN -1
    ELSE WriteIterations(pos + WriteChunk(pos, remain), remain - WriteChunk(pos, remain),
                         done + 1, fuel - 1)

\* the same for the block loop of Dir_Read on a directory of entries entries
RECURSIVE DirIterations(_, _, _)
DirIterations(entries, done, fuel) ==
    IF ~(entries > 0) THEN done
    ELSE IF fuel = 0 \/ DirChunk(entries) < 1 THEN -1
    ELSE DirIterations(entries - DirChunk(entries), done + 1, fuel - 1)

\* the chunk loop of File_Write; inode is the copy in inode_buffer, buffer
\* is indexed from 0, bidx bytes are written and remain are left
RECURSIVE WriteLoop(_, _, _, _, _, _)
WriteLoop(w, fd, inode, buffer, bidx, remain) ==
    LET pos == w.of[fd].pos
    IN
    IF ~(remain > 0)
    THEN IF pos > w.of[fd].size
         THEN Ret([w EXCEPT !.of[fd].size = pos,
                            !.ino[w.of[fd].inode] = [inode EXCEPT !.size = pos]], bidx)
         ELSE Ret(w, bidx)
    ELSE
    LET gidx == CDiv(pos, SECTOR_SIZE)
        start_addr == gidx * SECTOR_SIZE
        end_addr == start_addr + SECTOR_SIZE
        size == WriteChunk(pos, remain)
        offset == pos - start_addr
        loaded == start_addr < w.of[fd].size
        s == bitmap_first_unused(w.sbm, SECTOR_BITMAP_SECTORS, SECTOR_BITMAP_SIZE)
    IN
    IF gidx = MAX_SECTORS_PER_FILE THEN Ret(SetErr(w, E_FILE_TOO_BIG), -1)
    ELSE IF gidx \notin Groups THEN Ret(Undefined(w), -1)
    ELSE IF loaded /\ ~ValidSector(inode.data[gidx]) THEN Ret(SetErr(w, E_GENERAL), -1)
    ELSE IF ~loaded /\ s.idx < 0 THEN Ret(SetErr(w, E_NO_SPACE), -1)
    ELSE
    LET sector == IF loaded THEN inode.data[gidx] ELSE s.idx
        data == IF loaded THEN ReadSector(w, sector) ELSE ZeroSector
        copied == [c \in Cells |-> IF offset <= c /\ c < offset + size
                                   THEN buffer[bidx + (c - offset)] ELSE data[c]]
        w1 == [w EXCEPT !.sbm = IF loaded THEN @ ELSE s.bm,
                        !.of[fd].pos = pos + size]
        w2 == WriteSector(w1, sector, copied)
    IN  IF w2.st # "running" THEN Ret(w2, -1)
        ELSE WriteLoop(w2, fd, [inode EXCEPT !.data[gidx] = sector],
                       buffer, bidx + size, remain - size)

File_Write(w, fd, buffer, size) ==
    LET chk == FdCheck(w, fd)
    IN
    IF chk = "bad" THEN { Ret(SetErr(w, E_BAD_FD), -1) }
    ELSE IF chk = "outside" THEN OutsideFd(w)
    ELSE IF size < 0 THEN { Ret(SetErr(w, E_GENERAL), -1) }
    ELSE IF size = 0 THEN { Ret(w, 0) }
    ELSE
    LET inode == w.ino[w.of[fd].inode]
    IN  IF inode.size # w.of[fd].size \/ inode.type # 0 THEN { Ret(Abort(w), -1) }
        ELSE { WriteLoop(w, fd, inode, buffer, 0, size) }

\* for fd in range is_file_open(open_files[fd].inode) finds slot fd itself.
\* For another fd the int read there is outside the array: an inode no slot
\* holds (E_BAD_FD), or one some slot holds, and then fd > 0 fails the
\* range test while fd < 0 passes it and goes on outside the array
File_Seek(w, fd, offset) ==
    IF fd \notin Fds
    THEN IF fd > 0 THEN { Ret(SetErr(w, E_BAD_FD), -1), Ret(SetErr(w, E_GENERAL), -1) }
         ELSE { Ret(SetErr(w, E_BAD_FD), -1), Ret(SetErr(w, E_SEEK_OUT_OF_BOUNDS), -1),
                Ret(Undefined(w), -1) }
    ELSE IF ~is_file_open(w, w.of[fd].inode) THEN { Ret(SetErr(w, E_BAD_FD), -1) }
    ELSE IF fd > 0 \/ fd > MAX_OPEN_FILES THEN { Ret(SetErr(w, E_GENERAL), -1) }
    ELSE IF w.of[fd].size < offset \/ offset < 0
    THEN { Ret(SetErr(w, E_SEEK_OUT_OF_BOUNDS), -1) }
    ELSE { Ret([w EXCEPT !.of[fd].pos = offset], offset) }

\* the close that frees every slot on the inode of fd
File_Close_EverySlot(w, fd) ==
    LET chk == FdCheck(w, fd)
    IN  IF chk = "bad" THEN { Ret(SetErr(w, E_BAD_FD), -1) }
        ELSE IF chk = "outside" THEN OutsideFd(w)
        ELSE { Ret([w EXCEPT !.of = [x \in Fds |->
                                        IF w.of[x].inode = w.of[fd].inode
                                        THEN [w.of[x] EXCEPT !.inode = 0]
                                        ELSE w.of[x]]], 0) }

File_Close(w, fd) ==
    LET chk == FdCheck(w, fd)
    IN  IF chk = "bad" THEN { Ret(SetErr(w, E_BAD_FD), -1) }
        ELSE IF chk = "outside" THEN OutsideFd(w)
        ELSE { Ret([w EXCEPT !.of[fd].inode = 0], 0) }

\* Dir_Size and Dir_Read do not look at the value follow_path returns: as
\* in File_Open, child_inode is not assigned when follow_path fails hard
ChildInodes(f) == IF f.set THEN { f.last_inode } ELSE Uninitialized

\* Dir_Size from the test of child_inode on
SizeOfInode(w, child_inode) ==
    IF child_inode < 0 THEN Ret(SetErr(w, E_NO_SUCH_DIR), -1)
    ELSE LET child == w.ino[child_inode]
         IN  IF child.type # 1 THEN Ret(SetErr(w, E_GENERAL), -1)
             ELSE Ret(w, child.size * DIRENT_SIZE)

Dir_Size(w, path) ==
    { SizeOfInode(w, c) : c \in ChildInodes(follow_path(w, path)) }

\* Dir_Read from the test of child_inode on; buf is the entries copied, in
\* order. The test of the buffer size compares as size_t, so a negative
\* size is never too small. data[i] past the array, or a sector Disk_Read
\* refuses (its result is not looked at), leaves the bytes copied undefined
ReadInode(w, child_inode, size) ==
    IF child_inode < 0 THEN RetBuf(SetErr(w, E_NO_SUCH_DIR), -1, <<>>)
    ELSE LET child == w.ino[child_inode]
             sectors == CDiv(child.size + DIRENTS_PER_SECTOR - 1, DIRENTS_PER_SECTOR)
         IN  IF child.type # 1 THEN RetBuf(SetErr(w, E_GENERAL), -1, <<>>)
             ELSE IF size >= 0 /\ child.size * DIRENT_SIZE > size
             THEN RetBuf(SetErr(w, E_BUFFER_TOO_SMALL), -1, <<>>)
             ELSE IF \E i \in 0 .. (sectors - 1) :
                        i \notin Groups \/ ~ValidSector(child.data[i])
             THEN RetBuf(Undefined(w), -1, <<>>)
             ELSE RetBuf(w, child.size,
                         [k \in 1 .. child.size |->
                             LET buf == ReadSector(w, child.data[(k - 1) \div DIRENTS_PER_SECTOR])
                             IN  <<DirentName(buf, (k - 1) % DIRENTS_PER_SECTOR),
                                   DirentInode(buf, (k - 1) % DIRENTS_PER_SECTOR)>>])

Dir_Read(w, path, size) ==
    { ReadInode(w, c, size) : c \in ChildInodes(follow_path(w, path)) }

----------------------------------------------------------------------------
(* The state machine *)

\* FS_Boot on an absent image: the freshly formatted volume
Formatted ==
    [ibm |-> bitmap_init(INODE_BITMAP_SECTORS, 1),
     sbm |-> bitmap_init(SECTOR_BITMAP_SECTORS, DATABLOCK_START_SECTOR),
     ino |-> [n \in InodeNumbers |-> IF n = 0 THEN [ZeroInode EXCEPT !.type = 1] ELSE ZeroInode],
     blk |-> [s \in DataSectors |-> ZeroSector],
     of  |-> [fd \in Fds |-> ZeroOpenFile],
     err |-> "none",
     st  |-> "running"]

\* the image file: its length (-1 when there is no file) and what it
\* holds, sector by sector, with the history of the entries it holds
DiskSize == SECTOR_SIZE * TOTAL_SECTORS
ImageOf(w, sb, ch, md) ==
    [size |-> DiskSize, sb |-> sb, ibm |-> w.ibm, sbm |-> w.sbm, ino |-> w.ino,
     blk |-> w.blk, children |-> ch, made |-> md]

Init ==
    /\ inode_bitmap = Formatted.ibm
    /\ sector_bitmap = Formatted.sbm
    /\ inode_table = Formatted.ino
    /\ datablocks = Formatted.blk
    /\ open_files = Formatted.of
    /\ osErrno = Formatted.err
    /\ status = Formatted.st
    /\ calls = 0
    /\ children = [n \in InodeNumbers |-> {}]
    /\ made = {}
    /\ superblock = OS_MAGIC
    /\ backstore = ImageOf(Formatted, OS_MAGIC, [n \in InodeNumbers |-> {}], {})

----------------------------------------------------------------------------
(* FS_Boot and FS_Sync.  Disk_Init clears the disk in memory, Disk_Load    *)
(* reads the image file into it and fails on a file that is absent         *)
(* (E_OPENING_FILE) or shorter than the disk, Disk_Save writes the disk in *)
(* memory to the file.                                                     *)

NoChildren == [n \in InodeNumbers |-> {}]

\* the volume in memory after Disk_Init, and after Disk_Load of image img
Cleared(w) ==
    [w EXCEPT !.ibm = [b \in DOMAIN w.ibm |-> FALSE], !.sbm = [b \in DOMAIN w.sbm |-> FALSE],
              !.ino = [n \in InodeNumbers |-> ZeroInode],
              !.blk = [s \in DataSectors |-> ZeroSector]]
Loaded(w, img) ==
    [w EXCEPT !.ibm = img.ibm, !.sbm = img.sbm, !.ino = img.ino, !.blk = img.blk]

\* no image file
Absent == [ImageOf(Cleared(Formatted), 0, NoChildren, {}) EXCEPT !.size = -1]

Booted(ret, w, sb, bs, ch, md) ==
    [ret |-> ret, w |-> w, sb |-> sb, bs |-> bs, children |-> ch, made |-> md]

\* a boot that fails: osErrno = E_GENERAL, return -1
BootFails(w, sb, bs, ch, md) ==
    Booted(-1, [w EXCEPT !.err = E_GENERAL, !.st = "failed"], sb, bs, ch, md)

\* check_magic
check_magic(sb) == sb = OS_MAGIC

FS_Boot(w, bs) ==
    IF bs = Absent
    THEN \* format, save, clear the open files
         LET f == [Formatted EXCEPT !.err = w.err]
         IN  Booted(0, f, OS_MAGIC, ImageOf(f, OS_MAGIC, NoChildren, {}), NoChildren, {})
    ELSE IF bs.size < DiskSize
    THEN BootFails(Cleared(w), 0, bs, NoChildren, {})
    ELSE IF bs.size # DiskSize
    THEN BootFails(Loaded(w, bs), bs.sb, bs, bs.children, bs.made)
    ELSE IF check_magic(bs.sb)
    THEN Booted(0, [Loaded(w, bs) EXCEPT !.of = [fd \in Fds |-> ZeroOpenFile],
                                         !.st = "running"],
                bs.sb, bs, bs.children, bs.made)
    ELSE BootFails(Loaded(w, bs), bs.sb, bs, bs.children, bs.made)

\* FS_Sync: the image file after Disk_Save
FS_Sync(w, sb, ch, md) == ImageOf(w, sb, ch, md)

\* the process makes calls while it runs; r is one outcome of a call
Becomes(r) ==
    /\ status = "running"
    /\ inode_bitmap' = r.w.ibm
    /\ sector_bitmap' = r.w.sbm
    /\ inode_table' = r.w.ino
    /\ datablocks' = r.w.blk
    /\ open_files' = r.w.of
    /\ osErrno' = r.w.err
    /\ status' = r.w.st
    /\ calls' = IF [r.w EXCEPT !.err = osErrno] = World THEN calls ELSE calls + 1
    /\ UNCHANGED <<superblock, backstore>>

\* the history after a create of path that returned 0: the entry is added
\* to the directory the path resolved to, and the new inode starts empty
AfterCreate(w, path) ==
    LET f == follow_path(w, path)
        c == bitmap_first_unused(w.ibm, INODE_BITMAP_SECTORS, INODE_BITMAP_SIZE).idx
        fresh == [children EXCEPT ![c] = {}]
    IN  [fresh EXCEPT ![f.ret] = @ \cup { <<f.last_fname, c>> }]

\* the history after an unlink of path that returned 0: the entries of the
\* resolved directory naming the resolved inode are gone
AfterUnlink(w, path) ==
    LET f == follow_path(w, path)
    IN  [children EXCEPT ![f.ret] = { e \in @ : e[2] # f.last_inode }]

\* the names of a path: its tokens without the empty ones
NamesOf(path) == SelectSeq(path.toks, LAMBDA t : t # 0)

Created(r, path, type) ==
    IF r.ret = 0 /\ r.w.st = "running"
    THEN /\ children' = AfterCreate(World, path)
         /\ made' = { m \in made : m[1] # NamesOf(path) } \cup
                    { <<NamesOf(path),
                        bitmap_first_unused(inode_bitmap, INODE_BITMAP_SECTORS,
                                            INODE_BITMAP_SIZE).idx,
                        type>> }
    ELSE UNCHANGED <<children, made>>
Unlinked(r, path) ==
    IF r.ret = 0 /\ r.w.st = "running"
    THEN /\ children' = AfterUnlink(World, path)
         /\ made' = { m \in made : m[1] # NamesOf(path) }
    ELSE UNCHANGED <<children, made>>

DoFileCreate(P) == \E p \in P : \E r \in File_Create(World, p) : Becomes(r) /\ Created(r, p, 0)
DoDirCreate(P) == \E p \in P : \E r \in Dir_Create(World, p) : Becomes(r) /\ Created(r, p, 1)
DoFileUnlink(P) == \E p \in P : \E r \in File_Unlink(World, p) : Becomes(r) /\ Unlinked(r, p)
DoDirUnlink(P) == \E p \in P : \E r \in Dir_Unlink(World, p) : Becomes(r) /\ Unlinked(r, p)
DoFileOpen(P) ==
    \E p \in P : \E r \in File_Open(World, p) : Becomes(r) /\ UNCHANGED <<children, made>>
DoFileRead(F, N) ==
    \E fd \in F, n \in N : \E r \in File_Read(World, fd, n) : Becomes(r) /\ UNCHANGED <<children, made>>
DoFileWrite(F, N, B) ==
    \E fd \in F, n \in N, seed \in B :
        \E r \in File_Write(World, fd, Buffer(seed, n), n) : Becomes(r) /\ UNCHANGED <<children, made>>
DoFileSeek(F, O) ==
    \E fd \in F, off \in O : \E r \in File_Seek(World, fd, off) : Becomes(r) /\ UNCHANGED <<children, made>>
DoFileClose(F) ==
    \E fd \in F : \E r \in File_Close(World, fd) : Becomes(r) /\ UNCHANGED <<children, made>>
DoDirSize(P) ==
    \E p \in P : \E r \in Dir_Size(World, p) : Becomes(r) /\ UNCHANGED <<children, made>>
DoDirRead(P, N) ==
    \E p \in P, n \in N : \E r \in Dir_Read(World, p, n) : Becomes(r) /\ UNCHANGED <<children, made>>
DoBoot ==
    /\ status \in { "off", "running", "failed" }
    /\ LET b == FS_Boot(World, backstore)
       IN  /\ inode_bitmap' = b.w.ibm
           /\ sector_bitmap' = b.w.sbm
           /\ inode_table' = b.w.ino
           /\ datablocks' = b.w.blk
           /\ open_files' = b.w.of
           /\ osErrno' = b.w.err
           /\ status' = b.w.st
           /\ superblock' = b.sb
           /\ backstore' = b.bs
           /\ children' = b.children
           /\ made' = b.made
    /\ calls' = calls + 1
DoSync ==
    /\ status = "running"
    /\ backstore' = FS_Sync(World, superblock, children, made)
    /\ calls' = calls + 1
    /\ UNCHANGED <<inode_bitmap, sector_bitmap, inode_table, datablocks, open_files,
                   osErrno, status, children, made, superblock>>
\* the process ends: what is in memory is lost, the image file stays
DoExit ==
    /\ status \in { "running", "failed" }
    /\ inode_bitmap' = Cleared(World).ibm
    /\ sector_bitmap' = Cleared(World).sbm
    /\ inode_table' = Cleared(World).ino
    /\ datablocks' = Cleared(World).blk
    /\ open_files' = [fd \in Fds |-> ZeroOpenFile]
    /\ osErrno' = "none"
    /\ status' = "off"
    /\ superblock' = 0
    /\ children' = NoChildren
    /\ made' = {}
    /\ calls' = calls + 1
    /\ UNCHANGED backstore

----------------------------------------------------------------------------
(* The arguments the calls are made with *)

Path(toks) == [abs |-> TRUE, toks |-> toks]

\* the names of the entries of the directory trees
TreeNames == { 1, 2 }
RECURSIVE NameSeqs(_)
NameSeqs(n) ==
    IF n = 0 THEN { <<>> }
    ELSE { <<x>> \o t : x \in TreeNames, t \in NameSeqs(n - 1) }
PlainPaths(depth) == UNION { { Path(t) : t \in NameSeqs(n) } : n \in 1 .. depth }

\* spellings with empty tokens, without the leading '/', with a long name
OddPaths ==
    { Path(<<0, 1>>),                      \* "//a"
      Path(<<1, 0, 2>>),                   \* "/a//b"
      Path(<<2, 0>>),                      \* "/b/"
      [abs |-> FALSE, toks |-> <<1>>],     \* "a"
      Path(<<LongName>>),
      Path(<<1, LongName>>) }
\* the spellings of the root directory
RootPaths == { RootPath, Path(<<0, 0>>) }  \* "/", "//"

MaxDepth == 2
EntryPaths == PlainPaths(MaxDepth) \cup OddPaths

FdArgs == -1 .. (MAX_OPEN_FILES + 1)
MaxFileSize == MAX_SECTORS_PER_FILE * SECTOR_SIZE
WriteSizes == {-1, 0, 1, SECTOR_SIZE, SECTOR_SIZE + 1, MaxFileSize, MaxFileSize + 1}
ReadSizes == {-1, 0, 1, SECTOR_SIZE, MaxFileSize}
SeekOffsets == {-1, 0, 1, SECTOR_SIZE, MaxFileSize + 1}

----------------------------------------------------------------------------
(* The specifications *)

\* the number of state-changing calls explored
MaxCalls == 3
MaxDirCalls == 5

\* creates and unlinks of entries of the root and of its directories "/a"
\* and "/b", under plain and odd spellings
DirPaths ==
    { Path(t) : t \in { <<1>>, <<2>>, <<1, 1>>, <<1, 2>>, <<2, 1>>, <<2, 2>> } } \cup OddPaths

NextDir ==
    /\ calls < MaxDirCalls
    /\ \/ DoFileCreate(DirPaths)
       \/ DoDirCreate(DirPaths)
       \/ DoFileUnlink(DirPaths)
       \/ DoDirUnlink(DirPaths)

SpecDir == Init /\ [][NextDir]_vars

\* creates and unlinks of entries of one directory, the root: files under
\* more names than the data array of a directory has room for, and the
\* subdirectory "/a"
FlatPaths == { Path(<<n>>) : n \in Names }
MaxFlatCalls == 6

NextFlat ==
    /\ calls < MaxFlatCalls
    /\ \/ DoFileCreate(FlatPaths)
       \/ DoDirCreate({ Path(<<1>>) })
       \/ DoFileUnlink(FlatPaths)
       \/ DoDirUnlink({ Path(<<1>>) })

SpecFlat == Init /\ [][NextFlat]_vars

\* every call of the API
\* Creates of a small tree, and opens, sizes and reads of directories on
\* every spelling of a path
OpenPaths == DirPaths \cup RootPaths
OpenTree == { Path(<<1>>), Path(<<2>>), Path(<<1, 2>>) }   \* "/a", "/b", "/a/b"
DirCapacityBytes == DIRENTS_PER_SECTOR * MAX_SECTORS_PER_FILE * DIRENT_SIZE
DirReadSizes == { -1, 0, DIRENT_SIZE, DIRENTS_PER_SECTOR * MAX_SECTORS_PER_FILE * DIRENT_SIZE }
MaxOpenCalls == 4

NextOpen ==
    /\ calls < MaxOpenCalls
    /\ \/ DoFileCreate(OpenTree)
       \/ DoDirCreate(OpenTree)
       \/ DoFileOpen(OpenPaths)
       \/ DoDirSize(OpenPaths)
       \/ DoDirRead(OpenPaths, DirReadSizes)
       \/ DoFileClose(Fds)

SpecOpen == Init /\ [][NextOpen]_vars

\* Creates and unlinks on names that are legal, too long, or made of a
\* character that is not legal
NamePaths ==
    { Path(<<1>>), Path(<<1, 2>>), Path(<<StarName>>), Path(<<1, StarName>>),
      Path(<<StarName, 2>>), Path(<<LongName>>), Path(<<1, LongName>>), Path(<<LongName, 2>>) }
MaxNameCalls == 4

NextName ==
    /\ calls < MaxNameCalls
    /\ \/ DoFileCreate(NamePaths)
       \/ DoDirCreate(NamePaths)
       \/ DoFileUnlink(NamePaths)
       \/ DoDirUnlink(NamePaths)

SpecName == Init /\ [][NextName]_vars

\* Creates only, of one directory and of files in it and in the root, as
\* many paths as there are inodes
FullDir == Path(<<1>>)
FullFiles == { Path(<<2>>), Path(<<3>>), Path(<<4>>),
               Path(<<1, 1>>), Path(<<1, 2>>), Path(<<1, 3>>), Path(<<1, 4>>) }
MaxFullCalls == MAX_FILES

NextFull ==
    /\ calls < MaxFullCalls
    /\ \/ DoDirCreate({ FullDir })
       \/ DoFileCreate(FullFiles)

SpecFull == Init /\ [][NextFull]_vars

\* Creates and unlinks in a small tree, and sizes and reads of its
\* directories
ListPaths == { Path(<<1>>), Path(<<2>>), Path(<<3>>), Path(<<1, 2>>) }
ListedPaths == ListPaths \cup { RootPath }
MaxListCalls == 5

NextList ==
    /\ calls < MaxListCalls
    /\ \/ DoFileCreate(ListPaths)
       \/ DoDirCreate(ListPaths)
       \/ DoFileUnlink(ListPaths)
       \/ DoDirUnlink(ListPaths)
       \/ DoDirSize(ListedPaths)
       \/ DoDirRead(ListedPaths, DirReadSizes)

SpecList == Init /\ [][NextList]_vars

\* Boots of an image file that is absent, too short, too long or without
\* the magic, with syncs, ends of the process, creates and listings of "/"
FormattedImage == ImageOf(Formatted, OS_MAGIC, NoChildren, {})
BadImages ==
    { [FormattedImage EXCEPT !.size = DiskSize - 1],
      [FormattedImage EXCEPT !.size = DiskSize + 1],
      [FormattedImage EXCEPT !.sb = 0] }
BootPaths == { Path(<<1>>), Path(<<2>>) }
MaxBootCalls == 7

InitBoot ==
    /\ inode_bitmap = Cleared(Formatted).ibm
    /\ sector_bitmap = Cleared(Formatted).sbm
    /\ inode_table = Cleared(Formatted).ino
    /\ datablocks = Cleared(Formatted).blk
    /\ open_files = [fd \in Fds |-> ZeroOpenFile]
    /\ osErrno = "none"
    /\ status = "off"
    /\ calls = 0
    /\ children = NoChildren
    /\ made = {}
    /\ superblock = 0
    /\ backstore \in { Absent } \cup BadImages

NextBoot ==
    /\ calls < MaxBootCalls
    /\ \/ DoBoot
       \/ DoSync
       \/ DoExit
       \/ DoFileCreate(BootPaths)
       \/ DoDirRead({ RootPath }, { DirCapacityBytes })

SpecBoot == InitBoot /\ [][NextBoot]_vars

Next ==
    /\ calls < MaxCalls
    /\ \/ DoFileCreate(EntryPaths \cup RootPaths)
       \/ DoDirCreate(EntryPaths \cup RootPaths)
       \/ DoFileUnlink(EntryPaths \cup RootPaths)
       \/ DoDirUnlink(EntryPaths \cup RootPaths)
       \/ DoFileOpen(EntryPaths \cup RootPaths)
       \/ DoFileRead(FdArgs, ReadSizes)
       \/ DoFileWrite(FdArgs, WriteSizes, {0})
       \/ DoFileSeek(FdArgs, SeekOffsets)
       \/ DoFileClose(FdArgs)
       \/ DoDirSize(EntryPaths \cup RootPaths)
       \/ DoDirRead(EntryPaths \cup RootPaths, DirReadSizes)

Spec == Init /\ [][Next]_vars

\* a file written, closed, unlinked and created again beside a directory
\* that gets and loses an entry
VolFile == Path(<<2>>)              \* "/b"
VolDir == Path(<<1>>)               \* "/a"
VolPaths == { VolFile, VolDir, Path(<<1, 2>>) }   \* and "/a/b"
VolSizes == { SECTOR_SIZE + 1 }
MaxVolCalls == 8

NextVol ==
    /\ calls < MaxVolCalls
    /\ \/ DoFileCreate(VolPaths \ { VolDir })
       \/ DoDirCreate({ VolDir })
       \/ DoFileUnlink(VolPaths \ { VolDir })
       \/ DoDirUnlink({ VolDir })
       \/ DoFileOpen({ VolFile })
       \/ DoFileWrite(Fds, VolSizes, {0})
       \/ DoFileClose(Fds)

SpecVol == Init /\ [][NextVol]_vars

\* the calls of SpecVol, those that return success alone: every behaviour
\* is a sequence of API calls that all returned success
Succeeds(r) == r.ret >= 0 /\ r.w.st = "running"
MaxSuccessCalls == 6

NextSuccess ==
    /\ calls < MaxSuccessCalls
    /\ \/ \E p \in VolPaths \ { VolDir } : \E r \in File_Create(World, p) :
              Succeeds(r) /\ Becomes(r) /\ Created(r, p, 0)
       \/ \E r \in Dir_Create(World, VolDir) : Succeeds(r) /\ Becomes(r) /\ Created(r, VolDir, 1)
       \/ \E p \in VolPaths \ { VolDir } : \E r \in File_Unlink(World, p) :
              Succeeds(r) /\ Becomes(r) /\ Unlinked(r, p)
       \/ \E r \in Dir_Unlink(World, VolDir) : Succeeds(r) /\ Becomes(r) /\ Unlinked(r, VolDir)
       \/ \E r \in File_Open(World, VolFile) :
              Succeeds(r) /\ Becomes(r) /\ UNCHANGED <<children, made>>
       \/ \E fd \in Fds, n \in { 1, SECTOR_SIZE + 1 } :
              \E r \in File_Write(World, fd, Buffer(0, n), n) :
                  Succeeds(r) /\ Becomes(r) /\ UNCHANGED <<children, made>>
       \/ \E fd \in Fds : \E r \in File_Close(World, fd) :
              Succeeds(r) /\ Becomes(r) /\ UNCHANGED <<children, made>>

SpecSuccess == Init /\ [][NextSuccess]_vars

\* writes that go through one block, two blocks and past the last one, and
\* listings of a root of up to DIRENTS_PER_SECTOR + 1 entries
LoopPaths == { Path(<<1>>), Path(<<2>>), Path(<<3>>) }   \* "/a", "/b", "/c"
LoopSizes == { 1, SECTOR_SIZE + 1, MaxFileSize + 1 }
MaxLoopCalls == 6

NextLoop ==
    /\ calls < MaxLoopCalls
    /\ \/ DoFileCreate(LoopPaths)
       \/ DoFileOpen({ Path(<<1>>) })
       \/ DoFileWrite(Fds, LoopSizes, { 0 })
       \/ DoDirRead({ RootPath }, { 0, DirCapacityBytes })

SpecLoop == Init /\ [][NextLoop]_vars

\* the two bitmaps alone: bits allocated and given back in any order
AllocInode ==
    LET r == bitmap_first_unused(inode_bitmap, INODE_BITMAP_SECTORS, INODE_BITMAP_SIZE)
    IN  /\ r.idx >= 0
        /\ inode_bitmap' = r.bm
        /\ UNCHANGED <<sector_bitmap, inode_table, datablocks, open_files, osErrno,
                       status, calls, children, made, superblock, backstore>>
ResetInode ==
    \E i \in InodeNumbers \ { 0 } :
        LET r == bitmap_reset(inode_bitmap, INODE_BITMAP_SECTORS, i)
        IN  /\ inode_bitmap[i] /\ r.ok
            /\ inode_bitmap' = r.bm
            /\ UNCHANGED <<sector_bitmap, inode_table, datablocks, open_files, osErrno,
                           status, calls, children, made, superblock, backstore>>
AllocSector ==
    LET r == bitmap_first_unused(sector_bitmap, SECTOR_BITMAP_SECTORS, SECTOR_BITMAP_SIZE)
    IN  /\ r.idx >= 0
        /\ sector_bitmap' = r.bm
        /\ UNCHANGED <<inode_bitmap, inode_table, datablocks, open_files, osErrno,
                       status, calls, children, made, superblock, backstore>>
ResetSector ==
    \E s \in DataSectors :
        LET r == bitmap_reset(sector_bitmap, SECTOR_BITMAP_SECTORS, s)
        IN  /\ sector_bitmap[s] /\ r.ok
            /\ sector_bitmap' = r.bm
            /\ UNCHANGED <<inode_bitmap, inode_table, datablocks, open_files, osErrno,
                           status, calls, children, made, superblock, backstore>>

NextBitmap == AllocInode \/ ResetInode \/ AllocSector \/ ResetSector

SpecBitmap == Init /\ [][NextBitmap]_vars

\* two files created, opened, written and read back; RWSizes and RWSeeds
\* are the writes whose outcomes are examined in the states reached
RWPaths == { Path(<<1>>), Path(<<2>>) }   \* "/a", "/b"
RWSizes == 0 .. MaxFileSize
RWSeeds == { 0, 1 }
MaxRWCalls == 6

NextRW ==
    /\ calls < MaxRWCalls
    /\ \/ DoFileCreate(RWPaths)
       \/ DoFileOpen(RWPaths)
       \/ DoFileWrite(Fds, { 1, SECTOR_SIZE + 1 }, { 0 })
       \/ DoFileSeek(Fds, { 0 })
       \/ DoFileRead(Fds, { 1, MaxFileSize })
       \/ DoFileClose(Fds)

SpecRW == Init /\ [][NextRW]_vars

----------------------------------------------------------------------------
(* What a directory holds *)

\* entry i of directory inode d: <<fname, inode>>, read where the layout
\* puts it, in sector data[i / DIRENTS_PER_SECTOR] at i % DIRENTS_PER_SECTOR
DirEntry(w, d, i) ==
    LET buf == ReadSector(w, w.ino[d].data[i \div DIRENTS_PER_SECTOR])
    IN  <<DirentName(buf, i % DIRENTS_PER_SECTOR), DirentInode(buf, i % DIRENTS_PER_SECTOR)>>

IsDir(w, d) == d \in InodeNumbers /\ w.ino[d].type = 1

\* the indices of the entries of directory d, as far as the data array goes
EntryIndices(w, d) ==
    { i \in 0 .. (DIRENTS_PER_SECTOR * MAX_SECTORS_PER_FILE - 1) : i < w.ino[d].size }

RECURSIVE ReachFrom(_, _, _)
ReachFrom(w, D, n) ==
    IF n = 0 THEN D
    ELSE LET named == { e[2] : e \in UNION { { DirEntry(w, d, i) : i \in EntryIndices(w, d) } :
                                               d \in { x \in D : IsDir(w, x) } } }
         IN  ReachFrom(w, D \cup (named \cap InodeNumbers), n - 1)

\* the inodes reachable from the root through entries within size
Reachable(w) == ReachFrom(w, {0}, MAX_FILES)
ReachableDirs(w) == { d \in Reachable(w) : IsDir(w, d) }

----------------------------------------------------------------------------
(* C1: after any sequence of creates and unlinks of entries, every         *)
(* directory reachable from the root has size = its number of live         *)
(* children (the entries successful creates put there and successful       *)
(* unlinks have not removed), and its entries 0..size-1, read at sector    *)
(* data[i / DIRENTS_PER_SECTOR], offset i % DIRENTS_PER_SECTOR, are        *)
(* exactly those children, with non-empty pairwise distinct names; no      *)
(* such sequence leaves the volume in a state that is not defined.         *)
C1_DirectoryLayout ==
    /\ status # "undefined"
    /\ status = "running" =>
        \A d \in ReachableDirs(World) :
            LET n == inode_table[d].size
            IN  /\ 0 <= n /\ n <= DIRENTS_PER_SECTOR * MAX_SECTORS_PER_FILE
                /\ n = Cardinality(children[d])
                /\ { DirEntry(World, d, i) : i \in 0 .. (n - 1) } = children[d]
                /\ \A i \in 0 .. (n - 1) : DirEntry(World, d, i)[1] \in Names
                /\ \A i, j \in 0 .. (n - 1) :
                       i # j => DirEntry(World, d, i)[1] # DirEntry(World, d, j)[1]

(* C2: after a successful File_Unlink or Dir_Unlink of a path, following   *)
(* that same path reports the child as not found.                          *)
C2_UnlinkedIsNotFound ==
    status = "running" =>
        \A p \in DirPaths :
            \A r \in File_Unlink(World, p) \cup Dir_Unlink(World, p) :
                (r.ret = 0 /\ r.w.st = "running") =>
                    LET f == follow_path(r.w, p)
                    IN  f.set /\ f.last_inode = -1

----------------------------------------------------------------------------
(* What the reachable inodes reference *)

\* the number of data slots an inode uses for its size: sectors of bytes
\* for a file, sectors of entries for a directory
SlotsUsed(w, n) ==
    LET per == IF w.ino[n].type = 1 THEN DIRENTS_PER_SECTOR ELSE SECTOR_SIZE
        size == w.ino[n].size
    IN  IF size <= 0 THEN 0 ELSE ((size - 1) \div per) + 1

\* the <<inode, slot>> pairs within size of the reachable inodes
UsedSlots(w) ==
    { x \in Reachable(w) \X Groups : x[2] < SlotsUsed(w, x[1]) }

\* the <<directory, index>> pairs of the live entries
LiveEntries(w) ==
    { x \in ReachableDirs(w) \X (0 .. (DIRENTS_PER_SECTOR * MAX_SECTORS_PER_FILE - 1)) :
          x[2] < w.ino[x[1]].size }

(* C3: in every state the API calls reach, each data block referenced      *)
(* within size by an inode reachable from the root has its sector-bitmap   *)
(* bit set, lies at or after DATABLOCK_START_SECTOR and is referenced by   *)
(* one slot of one inode only; each inode named by a live entry has its    *)
(* inode-bitmap bit set and is named by one entry only; no call leaves     *)
(* the volume in a state that is not defined.                              *)
C3_NoSharing ==
    /\ status # "undefined"
    /\ status = "running" =>
        /\ \A x \in UsedSlots(World) :
              LET s == inode_table[x[1]].data[x[2]]
              IN  /\ s >= DATABLOCK_START_SECTOR /\ s < TOTAL_SECTORS
                  /\ sector_bitmap[s]
                  /\ \A y \in UsedSlots(World) :
                         inode_table[y[1]].data[y[2]] = s => y = x
        /\ \A x \in LiveEntries(World) :
              LET c == DirEntry(World, x[1], x[2])[2]
              IN  /\ c \in InodeNumbers
                  /\ inode_bitmap[c]
                  /\ \A y \in LiveEntries(World) :
                         DirEntry(World, y[1], y[2])[2] = c => y = x

----------------------------------------------------------------------------
(* C4: a File_Unlink that returns 0 clears the inode-bitmap bit of the     *)
(* file's inode and the sector-bitmap bit of every block the file          *)
(* occupied, ceil(size / SECTOR_SIZE) of them, the partially filled last   *)
(* block included.                                                         *)
C4_UnlinkFreesEveryBlock ==
    status = "running" =>
        \A p \in VolPaths :
            \A r \in File_Unlink(World, p) :
                (r.ret = 0 /\ r.w.st = "running") =>
                    LET c == follow_path(World, p).last_inode
                    IN  /\ ~r.w.ibm[c]
                        /\ \A g \in Groups :
                               g < SlotsUsed(World, c) => ~r.w.sbm[inode_table[c].data[g]]

(* C5: the size cached in every occupied slot of open_files equals the     *)
(* size of the slot's inode in the inode table, also when several          *)
(* descriptors are open on one file and a write through one extends it.    *)
C5_CachedSizeIsInodeSize ==
    status = "running" =>
        \A fd \in Fds :
            open_files[fd].inode > 0 =>
                open_files[fd].size = inode_table[open_files[fd].inode].size

----------------------------------------------------------------------------
(* Reading a file back *)

\* the byte sequences that reads on fd return when they are issued until
\* remain bytes are returned or a read returns nothing
RECURSIVE ReadBack(_, _, _)
ReadBack(w, fd, remain) ==
    IF remain = 0 THEN { <<>> }
    ELSE UNION { IF r.ret <= 0 \/ r.w.st # "running" THEN { <<>> }
                 ELSE { r.buf \o t : t \in ReadBack(r.w, fd, remain - r.ret) } :
                 r \in File_Read(w, fd, remain) }

\* descriptor fd is the only one on a file that was created and opened and
\* not written yet
NewlyOpened(w, fd) ==
    /\ w.of[fd].inode > 0
    /\ w.of[fd].pos = 0
    /\ w.of[fd].size = 0
    /\ w.ino[w.of[fd].inode] = ZeroInode
    /\ w.ibm[w.of[fd].inode]
    /\ \A other \in Fds \ { fd } : w.of[other].inode # w.of[fd].inode

Written(seed, n) == [i \in 1 .. n |-> Buffer(seed, n)[i - 1]]

(* C6: for every N in 0 .. MAX_SECTORS_PER_FILE * SECTOR_SIZE, File_Write  *)
(* of N bytes on the descriptor of a newly created and opened file returns *)
(* N, and then reads issued until N bytes are returned give back exactly   *)
(* the bytes written, both after File_Seek of that descriptor to 0 and     *)
(* through a second descriptor opened on the file.                         *)
C6_ReadBackWhatWasWritten ==
    status = "running" =>
        \A fd \in Fds, n \in RWSizes, seed \in RWSeeds :
            NewlyOpened(World, fd) =>
                \A r \in File_Write(World, fd, Buffer(seed, n), n) :
                    /\ r.ret = n
                    /\ \A s \in File_Seek(r.w, fd, 0) :
                           /\ s.ret = 0
                           /\ ReadBack(s.w, fd, n) = { Written(seed, n) }
                    /\ \A p \in RWPaths :
                           follow_path(r.w, p).last_inode = open_files[fd].inode =>
                               \A o \in File_Open(r.w, p) :
                                   o.ret >= 0 => ReadBack(o.w, o.ret, n) = { Written(seed, n) }

----------------------------------------------------------------------------
(* Paths and what was made along them *)

\* the inode made for the names t, -1 when nothing was; the root for <<>>
InodeMade(t) ==
    IF t = <<>> THEN 0
    ELSE IF \E m \in made : m[1] = t THEN (CHOOSE m \in made : m[1] = t)[2]
    ELSE -1

\* the names t spell a directory that was made, and so do all its prefixes
DirectoryMade(t) ==
    \A k \in 1 .. Len(t) : \E m \in made : m[1] = SubSeq(t, 1, k) /\ m[3] = 1

(* C7: follow_path on a path whose names but the last are directories    *)
(* that exist returns parent = the inode of the deepest of them and child  *)
(* = the inode of the entry the whole path names, or not found when there  *)
(* is no such entry (so after creating /a, /a/b and /a/b/c the path        *)
(* /a/b/c gives parent = b and child = c); on the root path it returns     *)
(* parent = child = 0; repeated and trailing separators do not change the  *)
(* result.                                                                 *)
C7_PathResolution ==
    status = "running" =>
        \A p \in DirPaths \cup RootPaths :
            LET t == NamesOf(p)
                f == follow_path(World, p)
            IN  IF t = <<>>
                THEN f.set /\ f.ret = 0 /\ f.last_inode = 0
                ELSE (p.abs /\ DirectoryMade(SubSeq(t, 1, Len(t) - 1))
                            /\ \A k \in 1 .. Len(t) : t[k] \in Names) =>
                         /\ f.set
                         /\ f.ret = InodeMade(SubSeq(t, 1, Len(t) - 1))
                         /\ f.last_inode = InodeMade(t)

\* a path with the faults named: not absolute, a name before the last that
\* names nothing, or one that names a file
FaultyPath(p) ==
    \/ ~p.abs
    \/ \E k \in 1 .. (Len(NamesOf(p)) - 1) :
           \/ InodeMade(SubSeq(NamesOf(p), 1, k)) = -1
           \/ \E m \in made : m[1] = SubSeq(NamesOf(p), 1, k) /\ m[3] = 0

(* C8: follow_path fails hard (returns -1 without a child) on a path that  *)
(* is not absolute, or has a name before the last that names nothing or    *)
(* names a file; File_Create, Dir_Create, File_Unlink and Dir_Unlink given *)
(* such a path fail and leave both bitmaps, the inode table and the data   *)
(* blocks as they were.                                                    *)
C8_FaultyPathFailsCleanly ==
    status = "running" =>
        \A p \in DirPaths :
            FaultyPath(p) =>
                /\ follow_path(World, p).ret = -1
                /\ ~follow_path(World, p).set
                /\ \A r \in File_Create(World, p) \cup Dir_Create(World, p) \cup
                            File_Unlink(World, p) \cup Dir_Unlink(World, p) :
                       /\ r.ret < 0
                       /\ r.w.ibm = inode_bitmap
                       /\ r.w.sbm = sector_bitmap
                       /\ r.w.ino = inode_table
                       /\ r.w.blk = datablocks

----------------------------------------------------------------------------
(* The bitmaps *)

\* the bits bitmap_first_unused searches: those of the first nbits bytes
InRange(nbits) == 0 .. (8 * nbits - 1)
FreeCount(bm, nbits) == Cardinality({ b \in InRange(nbits) : ~bm[b] })

\* the round trip on one bitmap
RoundTrip(bm, num, nbits) ==
    LET r == bitmap_first_unused(bm, num, nbits)
        back == bitmap_reset(r.bm, num, r.idx)
    IN  /\ (\E b \in InRange(nbits) : ~bm[b]) =>
               /\ r.idx \in InRange(nbits)
               /\ ~bm[r.idx]
               /\ r.bm = [bm EXCEPT ![r.idx] = TRUE]
               /\ FreeCount(r.bm, nbits) = FreeCount(bm, nbits) - 1
               /\ back.ok
               /\ back.bm = [r.bm EXCEPT ![r.idx] = FALSE]
               /\ FreeCount(back.bm, nbits) = FreeCount(r.bm, nbits) + 1
               /\ back.bm = bm
        /\ r.idx = -1 => \A b \in InRange(nbits) : bm[b]
        /\ r.idx = -1 => r.bm = bm

\* a bitmap of two sectors whose range ends in the second one: the first
\* sector is full, the second one starts with the bytes of the inode bitmap
LongBitmap ==
    [b \in BitmapBits(2) |->
        \/ b < 8 * SECTOR_SIZE
        \/ /\ b - 8 * SECTOR_SIZE \in InRange(INODE_BITMAP_SIZE)
           /\ inode_bitmap[b - 8 * SECTOR_SIZE]]

(* C9: on every bitmap with a clear bit in range, bitmap_first_unused      *)
(* returns an index whose bit was clear and sets exactly that bit (one     *)
(* free bit less); bitmap_reset of that index then clears exactly that bit *)
(* (one free bit more) and gives the bitmap back as it was.                *)
(* bitmap_first_unused returns -1 only when every bit in range is set.     *)
(* This holds of the two bitmaps of the volume and of a bitmap that        *)
(* continues in a second sector.                                           *)
C9_BitmapRoundTrip ==
    /\ RoundTrip(inode_bitmap, INODE_BITMAP_SECTORS, INODE_BITMAP_SIZE)
    /\ RoundTrip(sector_bitmap, SECTOR_BITMAP_SECTORS, SECTOR_BITMAP_SIZE)
    /\ RoundTrip(LongBitmap, 2, SECTOR_SIZE + INODE_BITMAP_SIZE)

\* the inode bitmap is full, and the first clear bit of the sector bitmap
\* lies between set ones in the second byte
C9_Witness ==
    /\ bitmap_first_unused(inode_bitmap, INODE_BITMAP_SECTORS, INODE_BITMAP_SIZE).idx = -1
    /\ bitmap_first_unused(sector_bitmap, SECTOR_BITMAP_SECTORS,
                           SECTOR_BITMAP_SIZE).idx = DATABLOCK_START_SECTOR + 1
    /\ sector_bitmap[DATABLOCK_START_SECTOR + 2]

----------------------------------------------------------------------------
(* Descriptors on one file *)

\* the outcomes of the calls that can be made on descriptor fd
CallsOn(w, fd) ==
    UNION { { [w |-> r.w, ret |-> r.ret] : r \in File_Read(w, fd, n) } : n \in ReadSizes } \cup
    UNION { File_Write(w, fd, Buffer(seed, n), n) : n \in RWSizes, seed \in RWSeeds } \cup
    UNION { File_Seek(w, fd, off) : off \in SeekOffsets } \cup
    File_Close(w, fd)

(* C10: two File_Opens of one file with no close in between return two     *)
(* distinct descriptors whose slots hold the file's inode, and the second  *)
(* open leaves the first slot as it was; File_Read, File_Write, File_Seek  *)
(* and File_Close on one descriptor leave every other occupied slot        *)
(* occupied, on its inode and at its pos.                                  *)
C10_IndependentDescriptors ==
    status = "running" =>
        /\ \A p \in RWPaths :
              \A r1 \in File_Open(World, p) :
                  r1.ret >= 0 =>
                      \A r2 \in File_Open(r1.w, p) :
                          r2.ret >= 0 =>
                              /\ r2.ret # r1.ret
                              /\ r2.w.of[r1.ret] = r1.w.of[r1.ret]
                              /\ r2.w.of[r2.ret].inode = r2.w.of[r1.ret].inode
                              /\ r2.w.of[r2.ret].inode = follow_path(World, p).last_inode
                              /\ r2.w.of[r2.ret].inode > 0
        /\ \A fd \in Fds, other \in Fds :
              (fd # other /\ open_files[fd].inode > 0 /\ open_files[other].inode > 0) =>
                  \A r \in CallsOn(World, fd) :
                      /\ r.w.of[other].pos = open_files[other].pos
                      /\ r.w.of[other].inode = open_files[other].inode

\* two descriptors on one file whose cursors have parted
C10_Witness ==
    /\ status = "running"
    /\ \E fd \in Fds, other \in Fds :
          /\ fd # other
          /\ open_files[fd].inode > 0
          /\ open_files[fd].inode = open_files[other].inode
          /\ open_files[fd].pos > open_files[other].pos
          /\ \E r \in File_Close(World, fd) : r.ret = 0 /\ r.w.of[other].inode > 0


(* C11: File_Unlink of a file that was made and has an occupied open-file  *)
(* slot fails with E_FILE_IN_USE and changes nothing else; when no slot    *)
(* holds the file (every descriptor on it has been closed) the same        *)
(* File_Unlink returns 0.                                                  *)
C11_UnlinkOpenFile ==
    status = "running" =>
        \A p \in VolPaths :
            LET t == NamesOf(p)
            IN  (/\ DirectoryMade(SubSeq(t, 1, Len(t) - 1))
                 /\ \E m \in made : m[1] = t /\ m[3] = 0) =>
                    \A r \in File_Unlink(World, p) :
                        IF \E fd \in Fds : open_files[fd].inode = InodeMade(t)
                        THEN r.ret = -1 /\ r.w = SetErr(World, E_FILE_IN_USE)
                        ELSE r.ret = 0 /\ r.w.st = "running"

\* the file is open on one descriptor after another one on it was closed:
\* File_Unlink fails; and no descriptor is left after the close of that one
C11_Witness ==
    /\ status = "running"
    /\ \E m \in made : m[1] = NamesOf(VolFile) /\ m[3] = 0
    /\ \E fd \in Fds, other \in Fds :
          /\ open_files[fd].inode = InodeMade(NamesOf(VolFile))
          /\ open_files[other].inode = 0
          /\ open_files[other].size > 0
          /\ \A r \in File_Unlink(World, VolFile) : r.ret = -1 /\ r.w.err = E_FILE_IN_USE
          /\ \A c \in File_Close(World, fd) :
                \A r \in File_Unlink(c.w, VolFile) : r.ret = 0

----------------------------------------------------------------------------
(* What a write leaves *)

\* byte k of the file of inode i
FileByte(w, i, k) == ReadSector(w, w.ino[i].data[k \div SECTOR_SIZE])[k % SECTOR_SIZE]

\* the block indices a write of n bytes at pos goes through
Touched(pos, n) ==
    { g \in Groups : n > 0 /\ pos \div SECTOR_SIZE <= g /\ g <= (pos + n - 1) \div SECTOR_SIZE }

(* C12: a File_Write(fd, buf, N) that succeeds returns N, advances pos by  *)
(* N, stores the N bytes at old pos .. old pos + N - 1 and leaves the      *)
(* other bytes of the file as they were, allocates a new block for exactly *)
(* the block indices it goes through that the old size did not cover, and  *)
(* sets the cached size and the inode size to max(old size, old pos + N).  *)
C12_WriteEffect ==
    status = "running" =>
        \A fd \in Fds, n \in RWSizes, seed \in RWSeeds :
            \A r \in File_Write(World, fd, Buffer(seed, n), n) :
                (r.ret >= 0 /\ r.w.st = "running") =>
                    LET i == open_files[fd].inode
                        old == inode_table[i]
                        new == r.w.ino[i]
                        pos == open_files[fd].pos
                        top == IF old.size > pos + n THEN old.size ELSE pos + n
                        fresh == { g \in Touched(pos, n) : g * SECTOR_SIZE >= old.size }
                    IN  /\ r.ret = n
                        /\ r.w.of[fd] = [inode |-> i, size |-> top, pos |-> pos + n]
                        /\ new.size = top
                        /\ new.type = old.type
                        /\ \A k \in 0 .. (top - 1) :
                              IF pos <= k /\ k < pos + n
                              THEN FileByte(r.w, i, k) = Buffer(seed, n)[k - pos]
                              ELSE k < old.size => FileByte(r.w, i, k) = FileByte(World, i, k)
                        /\ \A g \in Groups \ fresh : new.data[g] = old.data[g]
                        /\ \A g \in fresh : ~sector_bitmap[new.data[g]]
                        /\ \A g \in fresh, h \in fresh : new.data[g] = new.data[h] => g = h
                        /\ r.w.sbm = [b \in DOMAIN sector_bitmap |->
                                         sector_bitmap[b] \/ \E g \in fresh : new.data[g] = b]


(* C13: a File_Write that needs the block index MAX_SECTORS_PER_FILE fails *)
(* with E_FILE_TOO_BIG (E_NO_SPACE when the sector bitmap has no clear bit *)
(* left), and the chunks it wrote before failing stay part of the file:    *)
(* the inode on disk covers them and their bytes are the file's bytes at   *)
(* the offsets they were written to.                                       *)
C13_PartialWriteKept ==
    status = "running" =>
        \A fd \in Fds, n \in 1 .. (MaxFileSize + 1), seed \in RWSeeds :
            LET i == open_files[fd].inode
                pos == open_files[fd].pos
            IN  (i > 0 /\ inode_table[i].size = open_files[fd].size /\ inode_table[i].type = 0) =>
                    \A r \in File_Write(World, fd, Buffer(seed, n), n) :
                        /\ pos + n > MaxFileSize =>
                              r.ret = -1 /\ r.w.err \in { E_FILE_TOO_BIG, E_NO_SPACE }
                        /\ (r.ret = -1 /\ r.w.err \in { E_FILE_TOO_BIG, E_NO_SPACE }) =>
                              LET done == r.w.of[fd].pos - pos
                              IN  /\ r.w.ino[i].size >= pos + done
                                  /\ \A j \in 0 .. (done - 1) :
                                        FileByte(r.w, i, pos + j) = Buffer(seed, n)[j]

(* C14: for every occupied descriptor fd in 0 .. MAX_OPEN_FILES - 1 and    *)
(* every offset from 0 to the size of the file, File_Seek(fd, offset)      *)
(* returns offset, sets pos of slot fd to offset and changes no other slot *)
(* and nothing on disk.                                                    *)
C14_SeekInRange ==
    status = "running" =>
        \A fd \in Fds :
            open_files[fd].inode > 0 =>
                \A offset \in 0 .. open_files[fd].size :
                    \A r \in File_Seek(World, fd, offset) :
                        /\ r.ret = offset
                        /\ r.w = [World EXCEPT !.of[fd].pos = offset]

(* C15: File_Seek returns -1 and changes the pos of no slot when fd is     *)
(* outside 0 .. MAX_OPEN_FILES - 1, when slot fd is not occupied (a        *)
(* descriptor that was opened and closed included), and, with              *)
(* E_SEEK_OUT_OF_BOUNDS, when offset < 0 or offset > the size of the file. *)
C15_SeekFails ==
    status = "running" =>
        \A fd \in FdArgs, offset \in -1 .. (MaxFileSize + 1) :
            \A r \in File_Seek(World, fd, offset) :
                LET fails == /\ r.ret = -1
                             /\ r.w.st = "running"
                             /\ \A x \in Fds : r.w.of[x].pos = open_files[x].pos
                IN  /\ fd \notin Fds => fails
                    /\ (fd \in Fds /\ open_files[fd].inode <= 0) => fails
                    /\ (fd \in Fds /\ open_files[fd].inode > 0
                                   /\ (offset < 0 \/ offset > open_files[fd].size)) =>
                           fails /\ r.w.err = E_SEEK_OUT_OF_BOUNDS

\* the outcomes of File_Read, File_Write and File_Close on descriptor fd
ReadWriteClose(w, fd) ==
    UNION { { Ret(r.w, r.ret) : r \in File_Read(w, fd, n) } : n \in ReadSizes } \cup
    UNION { File_Write(w, fd, Buffer(seed, n), n) : n \in RWSizes, seed \in RWSeeds } \cup
    File_Close(w, fd)

(* C16: File_Read, File_Write and File_Close return -1 with E_BAD_FD and   *)
(* change nothing else, reading no slot outside open_files, for every      *)
(* fd < 0, every fd >= MAX_OPEN_FILES (fd = MAX_OPEN_FILES included) and   *)
(* every fd whose slot is free; after a File_Close(fd) that returned 0 the *)
(* slot is free and the three calls on fd fail that way.                   *)
C16_BadDescriptor ==
    status = "running" =>
        \A fd \in FdArgs :
            LET Rejects(R) == \A r \in R : r.ret = -1 /\ r.w = SetErr(World, E_BAD_FD)
                After(c) == /\ c.ret = 0
                            /\ c.w.of[fd].inode <= 0
                            /\ \A r \in ReadWriteClose(c.w, fd) :
                                  r.ret = -1 /\ r.w = SetErr(c.w, E_BAD_FD)
            IN  IF fd \in Fds /\ open_files[fd].inode > 0
                THEN \A c \in File_Close(World, fd) : After(c)
                ELSE Rejects(ReadWriteClose(World, fd))

(* C17: File_Open on a path that names a regular file that exists returns  *)
(* the lowest free descriptor, sets that slot to the inode of the file,    *)
(* the size of the inode and pos 0, and leaves every other slot (and the   *)
(* volume) as it was; with all MAX_OPEN_FILES slots occupied it fails with *)
(* E_TOO_MANY_OPEN_FILES.                                                  *)
C17_OpenTakesLowestFree ==
    status = "running" =>
        \A p \in RWPaths :
            \A m \in made :
                (m[1] = NamesOf(p) /\ m[3] = 0) =>
                    \A r \in File_Open(World, p) :
                        LET free == { fd \in Fds : open_files[fd].inode <= 0 }
                            low == CHOOSE fd \in free : \A x \in free : fd <= x
                        IN  IF free = {}
                            THEN r.ret = -1 /\ r.w = SetErr(World, E_TOO_MANY_OPEN_FILES)
                            ELSE /\ r.ret = low
                                 /\ r.w = [World EXCEPT !.of[low] =
                                              [inode |-> m[2], size |-> inode_table[m[2]].size,
                                               pos |-> 0]]

\* descriptor 0 was closed while a higher one is open, the file has bytes:
\* the open takes descriptor 0 again
C17_Witness ==
    /\ status = "running"
    /\ open_files[0].inode = 0
    /\ open_files[0].pos > 0
    /\ open_files[MAX_OPEN_FILES - 1].inode > 0
    /\ \E p \in RWPaths, m \in made :
          /\ m[1] = NamesOf(p) /\ m[3] = 0
          /\ inode_table[m[2]].size > 0
          /\ \E r \in File_Open(World, p) :
                r.ret = 0 /\ r.w.of[0] = [inode |-> m[2], size |-> inode_table[m[2]].size, pos |-> 0]

----------------------------------------------------------------------------
(* Paths that name a file, a directory *)

\* path p names a regular file that was made, below directories that were
NamesFile(p) ==
    LET t == NamesOf(p)
    IN  /\ p.abs
        /\ DirectoryMade(SubSeq(t, 1, Len(t) - 1))
        /\ \E m \in made : m[1] = t /\ m[3] = 0

\* path p names the root or a directory that was made
NamesDirectory(p) == p.abs /\ DirectoryMade(NamesOf(p))

(* C18: File_Open returns -1 and leaves every open-file slot as it was     *)
(* when the path does not name a regular file that exists: the last name   *)
(* is not found, the path names a directory ("/" included), or the path is *)
(* not absolute, misses a directory on the way or goes through a file;     *)
(* Dir_Size and Dir_Read return -1 when the path does not name a directory *)
(* that exists.                                                            *)
C18_OpenFailsOffFiles ==
    status = "running" =>
        \A p \in OpenPaths :
            /\ ~NamesFile(p) =>
                  \A r \in File_Open(World, p) :
                      r.ret = -1 /\ r.w.st = "running" /\ r.w.of = open_files
            /\ ~NamesDirectory(p) =>
                  /\ \A r \in Dir_Size(World, p) : r.ret = -1 /\ r.w.st = "running"
                  /\ \A n \in DirReadSizes :
                        \A r \in Dir_Read(World, p, n) : r.ret = -1 /\ r.w.st = "running"

----------------------------------------------------------------------------
(* The error kinds remove_inode's -2 and -3 stand for *)

DIRECTORY_NOT_EMPTY == "DIRECTORY_NOT_EMPTY"
NOT_A_DIRECTORY == "NOT_A_DIRECTORY"
NOT_A_FILE == "NOT_A_FILE"

\* outcome r of a call made in the present state is a failure that reports
\* kind and leaves the volume and the open files as they were
FailsWith(r, kind) ==
    /\ r.ret = -1
    /\ r.w.err = kind
    /\ r.w = [World EXCEPT !.err = kind]

(* C19: Dir_Unlink of a directory that is not empty fails reporting        *)
(* DIRECTORY_NOT_EMPTY, File_Unlink of a directory and Dir_Unlink of a     *)
(* regular file fail reporting the type mismatch; each leaves both         *)
(* bitmaps, the inode table, the directory blocks and the open-file table  *)
(* as they were.                                                           *)
C19_UnlinkRefusals ==
    status = "running" =>
        \A p \in DirPaths :
            LET t == NamesOf(p)
                d == InodeMade(t)
            IN  /\ (NamesDirectory(p) /\ inode_table[d].size > 0) =>
                      \A r \in Dir_Unlink(World, p) : FailsWith(r, DIRECTORY_NOT_EMPTY)
                /\ NamesDirectory(p) =>
                      \A r \in File_Unlink(World, p) : FailsWith(r, NOT_A_FILE)
                /\ NamesFile(p) =>
                      \A r \in Dir_Unlink(World, p) : FailsWith(r, NOT_A_DIRECTORY)

\* what the code does in those three cases, as far as it goes
C19_Unchanged ==
    status = "running" =>
        \A p \in DirPaths :
            LET t == NamesOf(p)
                d == InodeMade(t)
            IN  /\ (NamesDirectory(p) /\ inode_table[d].size > 0) =>
                      \A r \in Dir_Unlink(World, p) : r.ret = -2 /\ r.w = World
                /\ NamesDirectory(p) =>
                      \A r \in File_Unlink(World, p) :
                          r.ret = -1 /\ r.w = SetErr(World, E_GENERAL)
                /\ NamesFile(p) =>
                      \A r \in Dir_Unlink(World, p) : r.ret = -3 /\ r.w = World

(* C20: Dir_Unlink fails with E_ROOT_DIR and leaves the volume as it was   *)
(* (inode 0 stays allocated, a directory, of the same size) for every path *)
(* that resolves to the root directory, "/" and spellings with repeated    *)
(* separators such as "//", whether the root has entries or not.           *)
C20_RootStays ==
    status = "running" =>
        \A p \in RootPaths :
            \A r \in Dir_Unlink(World, p) :
                /\ r.ret = -1
                /\ r.w = SetErr(World, E_ROOT_DIR)

----------------------------------------------------------------------------
(* Names *)

\* the characters a name may be made of: A-Z, a-z, 0-9, '.', '-', '_'
LegalChars == (65 .. 90) \cup (97 .. 122) \cup (48 .. 57) \cup { 45, 46, 95 }

\* path p has a name longer than MAX_NAME - 1 or with a character that is
\* not legal
HasIllegalName(p) ==
    \E k \in 1 .. Len(p.toks) :
        /\ p.toks[k] # 0
        /\ NameLen(p.toks[k]) > MAX_NAME - 1 \/ CharOf(p.toks[k]) \notin LegalChars

(* C21: File_Create and Dir_Create fail, make no entry and allocate no     *)
(* inode on every path with a name longer than MAX_NAME - 1 bytes or with  *)
(* a character outside A-Z, a-z, 0-9, '.', '-', '_'.                       *)
C21_IllegalNamesRejected ==
    status = "running" =>
        \A p \in NamePaths :
            HasIllegalName(p) =>
                \A r \in File_Create(World, p) \cup Dir_Create(World, p) :
                    /\ r.ret = -1
                    /\ [r.w EXCEPT !.err = osErrno] = World

----------------------------------------------------------------------------
(* Creates *)

DirCapacity == DIRENTS_PER_SECTOR * MAX_SECTORS_PER_FILE

\* a create on path p has what it needs: names that are legal, directories
\* that were made down to the parent, no entry of the last name, room in
\* the parent, a free inode, and a free sector when the parent needs one
CanCreate(p) ==
    LET t == NamesOf(p)
        d == InodeMade(SubSeq(t, 1, Len(t) - 1))
    IN  /\ p.abs /\ t # <<>>
        /\ ~HasIllegalName(p)
        /\ DirectoryMade(SubSeq(t, 1, Len(t) - 1))
        /\ InodeMade(t) = -1
        /\ inode_table[d].size < DirCapacity
        /\ \E c \in InodeNumbers : ~inode_bitmap[c]
        /\ inode_table[d].size % DIRENTS_PER_SECTOR = 0 =>
              \E s \in DataSectors : ~sector_bitmap[s]

\* outcome r of a create of the given type on path p added one entry
AddsOneEntry(r, p, type) ==
    LET t == NamesOf(p)
        d == InodeMade(SubSeq(t, 1, Len(t) - 1))
        n == inode_table[d].size
        c == DirEntry(r.w, d, n)[2]
    IN  /\ r.ret = 0
        /\ r.w.st = "running"
        /\ r.w.ino[d].size = n + 1
        /\ r.w.ino[d].type = 1
        /\ DirEntry(r.w, d, n)[1] = t[Len(t)]
        /\ \A i \in 0 .. (n - 1) : DirEntry(r.w, d, i) = DirEntry(World, d, i)
        /\ c \in InodeNumbers /\ ~inode_bitmap[c]
        /\ r.w.ibm = [inode_bitmap EXCEPT ![c] = TRUE]
        /\ r.w.ino[c].type = type /\ r.w.ino[c].size = 0
        /\ \A x \in InodeNumbers \ { c, d } : r.w.ino[x] = inode_table[x]
        /\ r.w.of = open_files

(* C22: File_Create and Dir_Create on a path that names a file or a        *)
(* directory that exists ("/" included) fail, allocate no inode and no     *)
(* data block and leave the parent directory as it was; on a valid path    *)
(* whose last name has no entry and whose parent is a directory with room  *)
(* they return 0, add exactly the entry (name, new inode) to the parent    *)
(* and make the new inode one of the type asked for, of size 0.            *)
C22_CreateEffect ==
    status = "running" =>
        \A p \in DirPaths \cup RootPaths :
            /\ (NamesFile(p) \/ NamesDirectory(p)) =>
                  \A r \in File_Create(World, p) \cup Dir_Create(World, p) :
                      r.ret = -1 /\ [r.w EXCEPT !.err = osErrno] = World
            /\ CanCreate(p) =>
                  /\ \A r \in File_Create(World, p) : AddsOneEntry(r, p, 0)
                  /\ \A r \in Dir_Create(World, p) : AddsOneEntry(r, p, 1)

(* C23: a directory never holds more than DIRENTS_PER_SECTOR *             *)
(* MAX_SECTORS_PER_FILE entries: a create in a directory that is at that   *)
(* capacity fails, and add_inode never stores a block number into          *)
(* parent->data[group] with group >= MAX_SECTORS_PER_FILE.                 *)
C23_DirectoryCapacity ==
    /\ status # "undefined"
    /\ status = "running" =>
          /\ \A d \in InodeNumbers :
                (inode_bitmap[d] /\ inode_table[d].type = 1) => inode_table[d].size <= DirCapacity
          /\ \A p \in FlatPaths :
                inode_table[0].size = DirCapacity =>
                    \A r \in File_Create(World, p) \cup Dir_Create(World, p) :
                        r.ret = -1 /\ r.w.st = "running"

----------------------------------------------------------------------------
(* The inode table filling up *)

INODE_TABLE_FULL == "INODE_TABLE_FULL"

\* a create on path p has what the boundary scenario asks of it: a valid
\* path with no entry yet, in a directory that was made and has room
RoomFor(p) ==
    LET t == NamesOf(p)
        d == InodeMade(SubSeq(t, 1, Len(t) - 1))
    IN  /\ p.abs /\ t # <<>> /\ ~HasIllegalName(p)
        /\ DirectoryMade(SubSeq(t, 1, Len(t) - 1))
        /\ InodeMade(t) = -1
        /\ inode_table[d].size < DirCapacity

\* the outcomes of the create of path p
CreateOf(p) == IF p = FullDir THEN Dir_Create(World, p) ELSE File_Create(World, p)

(* C24: from a freshly formatted volume the first MAX_FILES - 1 creates of *)
(* distinct valid paths in directories with room return 0, and the next    *)
(* one fails with INODE_TABLE_FULL.                                        *)
C24_TableFull ==
    status = "running" =>
        \A p \in { FullDir } \cup FullFiles :
            RoomFor(p) =>
                \A r \in CreateOf(p) :
                    IF Cardinality(made) < MAX_FILES - 1
                    THEN r.ret = 0 /\ r.w.st = "running"
                    ELSE r.ret = -1 /\ r.w = SetErr(World, INODE_TABLE_FULL)

\* what the code does at the boundary: the same count, another error kind
C24_FullAsCreateError ==
    status = "running" =>
        \A p \in { FullDir } \cup FullFiles :
            RoomFor(p) =>
                \A r \in CreateOf(p) :
                    IF Cardinality(made) < MAX_FILES - 1
                    THEN r.ret = 0 /\ r.w.st = "running"
                    ELSE r.ret = -1 /\ r.w = SetErr(World, E_CREATE)

----------------------------------------------------------------------------
(* Listing a directory *)

\* the buffer capacities Dir_Read is called with
Capacities == -1 .. (DirCapacity * DIRENT_SIZE)

(* C25: for every directory that exists Dir_Size returns its number of     *)
(* entries times sizeof(dirent_t); Dir_Read with a buffer capacity below   *)
(* that fails with E_BUFFER_TOO_SMALL and writes nothing to the buffer,    *)
(* and with a capacity of at least that it returns the number of entries   *)
(* and fills the buffer with the entries 0 .. size - 1 in the order of the *)
(* directory, each the (name, inode) of a live child.                      *)
C25_Listing ==
    status = "running" =>
        \A p \in ListedPaths :
            NamesDirectory(p) =>
                LET d == InodeMade(NamesOf(p))
                    n == Cardinality(children[d])
                IN  /\ \A r \in Dir_Size(World, p) : r.ret = n * DIRENT_SIZE /\ r.w = World
                    /\ \A cap \in Capacities :
                          \A r \in Dir_Read(World, p, cap) :
                              IF cap < n * DIRENT_SIZE
                              THEN /\ r.ret = -1
                                   /\ r.w = SetErr(World, E_BUFFER_TOO_SMALL)
                                   /\ r.buf = <<>>
                              ELSE /\ r.ret = n
                                   /\ r.w = World
                                   /\ Len(r.buf) = n
                                   /\ \A k \in 1 .. n :
                                         /\ r.buf[k] = DirEntry(World, d, k - 1)
                                         /\ r.buf[k] \in children[d]

----------------------------------------------------------------------------
(* Booting *)

\* the listing of "/" in world w: what Dir_Read returns and copies
RootListing(w) == { [ret |-> r.ret, buf |-> r.buf] : r \in Dir_Read(w, RootPath, DirCapacityBytes) }

\* the volume in memory is the freshly formatted one
FreshVolume ==
    /\ superblock = OS_MAGIC
    /\ [World EXCEPT !.of = Formatted.of, !.err = Formatted.err] = Formatted

(* C26: FS_Boot on an absent image formats a volume whose superblock holds *)
(* the magic, whose inode bitmap has bit 0 set and no other, whose sector  *)
(* bitmap has its first DATABLOCK_START_SECTOR bits set and no other, and  *)
(* whose inode 0 is a directory of size 0; a boot from that image after    *)
(* FS_Sync lists the same empty root as before; FS_Boot of an image of the *)
(* wrong size or without the magic fails.                                  *)
C26_Boot ==
    /\ LET b == FS_Boot(World, Absent)
       IN  /\ b.ret = 0 /\ b.w.st = "running"
           /\ b.sb = OS_MAGIC
           /\ \A i \in DOMAIN b.w.ibm : b.w.ibm[i] <=> (i = 0)
           /\ \A s \in DOMAIN b.w.sbm : b.w.sbm[s] <=> (s < DATABLOCK_START_SECTOR)
           /\ b.w.ino[0].type = 1 /\ b.w.ino[0].size = 0
           /\ b.bs.size = DiskSize /\ b.bs.sb = OS_MAGIC
    /\ (status = "running" /\ FreshVolume) =>
          LET again == FS_Boot(World, FS_Sync(World, superblock, children, made))
          IN  /\ again.ret = 0 /\ again.w.st = "running"
              /\ RootListing(World) = { [ret |-> 0, buf |-> <<>>] }
              /\ RootListing(again.w) = RootListing(World)
    /\ \A img \in { [backstore EXCEPT !.size = n] : n \in { 0, DiskSize - 1, DiskSize + 1 } }
                  \cup { [backstore EXCEPT !.sb = m] : m \in { 0, OS_MAGIC + 1 } } :
          img.size >= 0 =>
              LET b == FS_Boot(World, img)
              IN  b.ret = -1 /\ b.w.st = "failed" /\ b.w.err = E_GENERAL

\* the freshly formatted volume after a second boot, from the image saved
C26_Witness ==
    /\ status = "running"
    /\ FreshVolume
    /\ calls >= 3
    /\ backstore = FormattedImage
    /\ RootListing(World) = { [ret |-> 0, buf |-> <<>>] }
    /\ FS_Boot(World, backstore).ret = 0

----------------------------------------------------------------------------
\* the count File_Read(fd, buf, n) is to return on a slot at pos of size
ReadCount(pos, size, n) ==
    IF pos = size \/ n = 0 THEN 0
    ELSE Min({ n, SECTOR_SIZE - (pos % SECTOR_SIZE), size - pos })

ReadArgs == 0 .. MaxFileSize

(* C27: a File_Read(fd, buf, n) that succeeds returns                      *)
(* min(n, SECTOR_SIZE - pos mod SECTOR_SIZE, size - pos) bytes, 0 when     *)
(* pos = size or n = 0, never a negative count; the bytes are the file's   *)
(* bytes from pos on, all of one block; pos advances by the count, and the *)
(* disk, the bitmaps and the other slots stay as they were.                *)
C27_ReadEffect ==
    status = "running" =>
        \A fd \in Fds, n \in ReadArgs :
            \A r \in File_Read(World, fd, n) :
                (r.ret >= 0 /\ r.w.st = "running") =>
                    LET pos == open_files[fd].pos
                        i == open_files[fd].inode
                    IN  /\ r.ret = ReadCount(pos, open_files[fd].size, n)
                        /\ Len(r.buf) = r.ret
                        /\ \A k \in 1 .. r.ret : r.buf[k] = FileByte(World, i, pos + k - 1)
                        /\ r.ret > 0 => pos \div SECTOR_SIZE = (pos + r.ret - 1) \div SECTOR_SIZE
                        /\ r.w = [World EXCEPT !.of[fd].pos = pos + r.ret]

\* a read of more than a block from 0 has stopped at the end of the first
\* block of a file that goes on, and the next read gives the next byte
C27_Witness ==
    /\ status = "running"
    /\ \E fd \in Fds :
        /\ open_files[fd].inode > 0
        /\ open_files[fd].pos = SECTOR_SIZE
        /\ open_files[fd].size = SECTOR_SIZE + 1
        /\ \E r \in File_Read(World, fd, MaxFileSize) :
              r.ret = 1 /\ r.buf = <<Buffer(0, SECTOR_SIZE + 1)[SECTOR_SIZE]>>

----------------------------------------------------------------------------
(* Compaction and growth of a directory *)

\* the index of the entry of directory d that the last name of a path is
\* stored at, -1 when no entry within the size of d holds the name
IndexOf(w, d, fname) ==
    LET hits == { i \in 0 .. (w.ino[d].size - 1) : DirEntry(w, d, i)[1] = fname }
    IN  IF hits = {} THEN -1 ELSE Min(hits)

\* outcome r removed the entry at index i of directory d, of size n
RemovedAt(r, d, i) ==
    LET n == inode_table[d].size
        last == inode_table[d].data[(n - 1) \div DIRENTS_PER_SECTOR]
    IN  /\ r.w.ino[d].size = n - 1
        /\ r.w.ino[d].type = 1
        /\ r.w.ino[d].data = inode_table[d].data
        /\ i # n - 1 => DirEntry(r.w, d, i) = DirEntry(World, d, n - 1)
        /\ \A j \in 0 .. (n - 2) : j # i => DirEntry(r.w, d, j) = DirEntry(World, d, j)
        /\ sector_bitmap[last]
        /\ r.w.sbm[last] <=> (n - 1) % DIRENTS_PER_SECTOR # 0
        /\ \A g \in Groups : g < (n - 1) \div DIRENTS_PER_SECTOR => r.w.sbm[inode_table[d].data[g]]

\* outcome r appended an entry for fname to directory d, of size n
AppendedAt(r, d, fname) ==
    LET n == inode_table[d].size
        g == n \div DIRENTS_PER_SECTOR
        s == r.w.ino[d].data[g]
    IN  /\ r.w.ino[d].size = n + 1
        /\ DirEntry(r.w, d, n)[1] = fname
        /\ ~inode_bitmap[DirEntry(r.w, d, n)[2]] /\ r.w.ibm[DirEntry(r.w, d, n)[2]]
        /\ \A j \in 0 .. (n - 1) : DirEntry(r.w, d, j) = DirEntry(World, d, j)
        /\ IF n % DIRENTS_PER_SECTOR = 0
           THEN /\ s \in DataSectors /\ ~sector_bitmap[s]
                /\ r.w.sbm = [sector_bitmap EXCEPT ![s] = TRUE]
                /\ \A k \in 1 .. (DIRENTS_PER_SECTOR - 1) :
                       /\ DirentName(ReadSector(r.w, s), k) = 0
                       /\ DirentInode(ReadSector(r.w, s), k) = 0
           ELSE /\ r.w.sbm = sector_bitmap
                /\ r.w.ino[d].data = inode_table[d].data

(* C28: an unlink that succeeds on the child stored at index i of a        *)
(* directory of size n leaves the directory with size n-1, the former last *)
(* entry at index i when i # n-1 and every other entry where it was, and   *)
(* frees the last block of the directory exactly when                      *)
(* (n-1) mod DIRENTS_PER_SECTOR = 0; a create that succeeds writes the     *)
(* entry at index n, in a new block that is zero elsewhere exactly when    *)
(* n mod DIRENTS_PER_SECTOR = 0.                                           *)
C28_CompactionAndGrowth ==
    status = "running" =>
        \A p \in FlatPaths :
            LET f == follow_path(World, p)
                d == f.ret
                i == IndexOf(World, d, f.last_fname)
            IN  d >= 0 =>
                /\ (i >= 0 /\ DirEntry(World, d, i)[2] = f.last_inode) =>
                      \A r \in File_Unlink(World, p) \cup Dir_Unlink(World, p) :
                          (r.ret = 0 /\ r.w.st = "running") => RemovedAt(r, d, i)
                /\ \A r \in File_Create(World, p) \cup Dir_Create(World, p) :
                      (r.ret = 0 /\ r.w.st = "running") => AppendedAt(r, d, f.last_fname)

\* the first of three entries was removed: the third is at index 0, the
\* second where it was, and the second block of the root is free again
C28_Witness ==
    /\ status = "running"
    /\ inode_table[0].size = DIRENTS_PER_SECTOR
    /\ DirEntry(World, 0, 0)[2] = 3
    /\ DirEntry(World, 0, 1)[2] = 2
    /\ inode_table[0].data[1] \in DataSectors
    /\ ~sector_bitmap[inode_table[0].data[1]]
    /\ ~inode_bitmap[1]

----------------------------------------------------------------------------
(* C29: in every state every occupied slot of open_files has               *)
(* 0 <= pos <= size, also after a File_Write that failed part-way with     *)
(* E_FILE_TOO_BIG or E_NO_SPACE, so that no File_Read computes a negative  *)
(* length for its copy.                                                    *)
C29_PosWithinSize ==
    /\ status # "undefined"
    /\ status = "running" =>
          \A fd \in Fds :
              open_files[fd].inode > 0 =>
                  /\ 0 <= open_files[fd].pos
                  /\ open_files[fd].pos <= open_files[fd].size
                  /\ \A n \in ReadArgs : \A r \in File_Read(World, fd, n) : r.w.st # "undefined"

----------------------------------------------------------------------------
(* C30: in every state every occupied slot of open_files holds the number  *)
(* of an inode > 0 whose bit in the inode bitmap is set and whose type is  *)
(* regular file: no creates, opens, closes and unlinks leave a descriptor  *)
(* on an inode that was freed.                                             *)
C30_DescriptorsOnLiveFiles ==
    status = "running" =>
        \A fd \in Fds :
            open_files[fd].inode # 0 =>
                /\ open_files[fd].inode \in InodeNumbers \ { 0 }
                /\ inode_bitmap[open_files[fd].inode]
                /\ inode_table[open_files[fd].inode].type = 0

----------------------------------------------------------------------------
(* C31: no File_Unlink or Dir_Unlink fails an assertion of remove_inode:   *)
(* the parent is a directory of size >= 1 before the decrement, and the    *)
(* compaction scan finds the entry of the child whenever the popped last   *)
(* entry is not the child's, so assert(0) is never reached.                *)
C31_RemoveAssertionsHold ==
    /\ status # "aborted"
    /\ status = "running" =>
          \A p \in DirPaths :
              \A r \in File_Unlink(World, p) \cup Dir_Unlink(World, p) :
                  /\ r.w.st # "aborted"
                  /\ \A d \in InodeNumbers : r.w.ino[d].size >= 0

----------------------------------------------------------------------------
(* Bits and owners *)

SetBits(bm) == Cardinality({ b \in DOMAIN bm : bm[b] })

(* C32: after API calls that all returned success, the sector bitmap has   *)
(* DATABLOCK_START_SECTOR set bits plus one per data block owned by a live *)
(* inode (ceil(size / SECTOR_SIZE) per file, ceil(size /                   *)
(* DIRENTS_PER_SECTOR) per directory), and the inode bitmap has one set    *)
(* bit plus one per live directory entry.                                  *)
C32_NoLeak ==
    status = "running" =>
        /\ SetBits(sector_bitmap) = DATABLOCK_START_SECTOR + Cardinality(UsedSlots(World))
        /\ SetBits(inode_bitmap) = 1 + Cardinality(LiveEntries(World))

----------------------------------------------------------------------------
(* Termination of the loops *)

\* the positions and the directory sizes the loops start from: every one
\* up to the largest file and the fullest directory, and those of the state
LoopPositions == (0 .. MaxFileSize) \cup { open_files[fd].pos : fd \in Fds }
LoopEntries ==
    (0 .. (DIRENTS_PER_SECTOR * MAX_SECTORS_PER_FILE)) \cup
    { inode_table[d].size : d \in { x \in InodeNumbers : inode_table[x].type = 1 } }

(* C33: every File_Write and every Dir_Read returns: each iteration of the *)
(* chunk loop of File_Write takes at least one byte off what remains or    *)
(* returns an error, each iteration of the block loop of Dir_Read takes at *)
(* least one entry off what remains, so a write of n bytes runs at most n  *)
(* iterations and a listing of n entries at most n.                        *)
C33_LoopsTerminate ==
    /\ \A pos \in LoopPositions, n \in 1 .. (MaxFileSize + 1) :
          /\ WriteIterations(pos, n, 0, n) >= 0
          /\ WriteIterations(pos, n, 0, n) <= n
    /\ \A entries \in LoopEntries :
          /\ DirIterations(entries, 0, entries) >= 0
          /\ DirIterations(entries, 0, entries) <= entries
    /\ status = "running" =>
          /\ \A fd \in Fds, n \in LoopSizes : File_Write(World, fd, Buffer(0, n), n) # {}
          /\ Dir_Read(World, RootPath, DirCapacityBytes) # {}

\* a write of SECTOR_SIZE + 1 bytes went through two iterations and the
\* listing of the root takes two
C33_Witness ==
    /\ status = "running"
    /\ \E fd \in Fds :
          /\ open_files[fd].inode > 0
          /\ open_files[fd].pos = SECTOR_SIZE + 1
          /\ open_files[fd].size = SECTOR_SIZE + 1
    /\ WriteIterations(0, SECTOR_SIZE + 1, 0, SECTOR_SIZE + 1) = 2
    /\ inode_table[0].size = DIRENTS_PER_SECTOR + 1
    /\ DirIterations(inode_table[0].size, 0, inode_table[0].size) = 2
    /\ \E r \in Dir_Read(World, RootPath, DirCapacityBytes) : r.ret = DIRENTS_PER_SECTOR + 1
====
